---- MODULE Spec2Model ----
(***************************************************************************)
(* AutoPrintFarm hub firmware: the cloud tunnel (TunnelClient), the        *)
(* printer slot table (PrinterManager + PrinterConfigStore), the Bambu     *)
(* MQTT adapter (BambuClient) and the main loop that drives them.          *)
(*                                                                         *)
(* Handlers are operators over a machine record m that carries every       *)
(* object they can touch; an action packs the variables into m, runs the   *)
(* handler and unpacks the result.  Time is millis() in milliseconds.      *)
(***************************************************************************)
EXTENDS Integers, Sequences, FiniteSets, TLC

VARIABLES
    now,                 \* millis()
    wifiUp,              \* WiFi.status() == WL_CONNECTED
    wifiConnected,       \* main.cpp flag
    printersInitialized, \* main.cpp flag
    tunnelInitialized,   \* main.cpp flag
    tunnel,              \* TunnelClient fields
    ws,                  \* TunnelClient::_wsClient: "closed" | "open" | "dropped"
    registered,          \* TunnelConfigStore KEY_REGISTERED
    printers,            \* PrinterManager::_printers
    store,               \* PrinterConfigStore slots in NVS
    activeCount,         \* PrinterManager::_activeCount
    instanceMap,         \* BambuClient::_instanceMap (report topic -> adapter)
    nextUid,             \* allocation counter: identity of the next adapter object
    trace,               \* what the last step received, sent and changed
    budget,              \* disturbances the environment may still inject
    stall,               \* seconds of millis() since loop() last ran a poll
    cloud,               \* CloudClient fields
    cws,                 \* CloudClient::_wsClient: "closed" | "open" | "dropped"
    hub,                 \* HubConfigStore: configuration valid, stored hub name
    lastTempLog,         \* PrinterManager::_lastTempLog
    lastPrinterStatusUpdate, \* BLEProvisioning::poll, static lastPrinterStatusUpdate
    binding,             \* TunnelConfigStore: tenant id, claim token, cloud URL
    hist,                \* history of the tunnel session: millis() of the last
                         \* inbound frame, of the last status broadcast and of
                         \* the entry into FAILED
    ble                  \* BLEProvisioning: the pending payloads and their flags,
                         \* the position of poll(), and the history of the writes

vars == <<now, wifiUp, wifiConnected, printersInitialized, tunnelInitialized,
          tunnel, ws, registered, printers, store, activeCount, instanceMap,
          nextUid, trace, budget, stall, cloud, cws, hub, lastTempLog,
          lastPrinterStatusUpdate, binding, hist, ble>>

----------------------------------------------------------------------------
(* Bounds of the exploration *)

MaxSeconds == 12       \* millis() is explored up to this many seconds
MaxInputs == 2         \* frames, link changes and socket losses per behaviour
MaxStall == 1          \* seconds loop() may go without polling while a poll is due
MaxPrinterSeconds == 6 \* millis() bound where the printers are explored
MaxBackoffSeconds == 700 \* millis() bound of the run without a reachable cloud
LinkStepSeconds == 100 \* the link changes at multiples of this in that run
MaxSessionSeconds == 64 \* millis() bound of the run of one tunnel session

----------------------------------------------------------------------------
(* Program constants *)

MAX_PRINTERS == 5
BAMBU_RECONNECT_INTERVAL_MS == 5000
TUNNEL_AUTH_TIMEOUT_MS == 10000
TUNNEL_PING_INTERVAL_MS == 25000
TUNNEL_PONG_TIMEOUT_MS == 60000
TUNNEL_RECONNECT_INITIAL_MS == 1000
TUNNEL_RECONNECT_MAX_MS == 60000
TUNNEL_MAX_RECONNECT_ATTEMPTS == 10
TUNNEL_STATUS_BROADCAST_MS == 30000
TEMP_LOG_INTERVAL_MS == 5000
CLOUD_AUTH_TIMEOUT_MS == 10000
CLOUD_PING_INTERVAL_MS == 25000
CLOUD_PONG_TIMEOUT_MS == 60000
CLOUD_RECONNECT_INITIAL_MS == 1000
CLOUD_RECONNECT_MAX_MS == 60000
CLOUD_MAX_RECONNECT_ATTEMPTS == 20
CLOUD_FAILED_RESET_MS == 300000

Null == "<null>"       \* absent JSON member, nullptr of a const char*

Slots == 0 .. (MAX_PRINTERS - 1)

TunnelStates == {"OFFLINE", "REGISTERING", "CONNECTING", "AUTHENTICATING",
                 "CONNECTED", "RECONNECTING", "FAILED"}

PrinterStates == {"OFFLINE", "IDLE", "PRINTING", "PAUSED", "ERROR", "UNKNOWN"}

----------------------------------------------------------------------------
(* Time and the per-step log *)

\* unsigned long subtraction millis() - t; a timestamp ahead of millis() wraps
\* to a difference larger than every timeout
WrappedDifference == 2147483647

Elapsed(m, t) == IF m.now >= t THEN m.now - t ELSE WrappedDifference

Log(m, ev) == [m EXCEPT !.tr = Append(@, ev)]

----------------------------------------------------------------------------
(* JSON values of a Bambu report and the ArduinoJson tests applied to them *)

\* a member of the "print" object: absent, null, an integer, a number with a
\* fraction (n counts tenths), or a string
Absent == [k |-> "absent", n |-> 0, s |-> ""]
JNull == [k |-> "null", n |-> 0, s |-> ""]
JInt(n) == [k |-> "int", n |-> n, s |-> ""]
JFloat(tenths) == [k |-> "float", n |-> tenths, s |-> ""]
JStr(s) == [k |-> "string", n |-> 0, s |-> s]

\* JsonVariant::isNull
isNull(x) == x.k \in {"absent", "null"}

\* JsonVariant::is<float>, is<int>, is<const char*>
isFloat(x) == x.k \in {"int", "float"}
isInt(x) == x.k = "int"
isString(x) == x.k = "string"

\* JsonVariant::as<float>: float fields hold tenths; a string that is not a
\* number converts to 0
asFloat(x) ==
    CASE x.k = "int" -> 10 * x.n
      [] x.k = "float" -> x.n
      [] OTHER -> 0

PrintKeys == {"nozzle_temper", "nozzle_target_temper", "bed_temper",
              "bed_target_temper", "gcode_state", "mc_percent",
              "mc_remaining_time", "layer_num", "total_layer_num", "gcode_file"}

\* a payload without a "print" object
NoPrint == [key \in PrintKeys |-> Absent]

Payload(parses, hasPrint, print) ==
    [parses |-> parses, hasPrint |-> hasPrint, print |-> print]

----------------------------------------------------------------------------
(* PrinterStatus and BambuClient *)

\* struct PrinterStatus; the float fields (temperatures, progress) are in tenths
PrinterStatusInit ==
    [connected |-> FALSE, state |-> "OFFLINE", stateString |-> "",
     filename |-> "", progressPercent |-> 0, remainingSeconds |-> 0,
     nozzleTemp |-> 0, nozzleTarget |-> 0, bedTemp |-> 0, bedTarget |-> 0,
     currentLayer |-> 0, totalLayers |-> 0, lastUpdateMs |-> 0]

\* _printers[slot] == nullptr
NullClient ==
    [uid |-> 0, id |-> "", name |-> "", ip |-> "", accessCode |-> "",
     serial |-> "", mqtt |-> FALSE, status |-> PrinterStatusInit,
     lastReconnectAttempt |-> 0, sequenceId |-> 0, polledAt |-> -1]

\* BambuClient::BambuClient
BambuClientNew(uid, config) ==
    [uid |-> uid, id |-> config.id, name |-> config.name, ip |-> config.ip,
     accessCode |-> config.accessCode, serial |-> config.serial,
     mqtt |-> FALSE, status |-> PrinterStatusInit,
     lastReconnectAttempt |-> 0, sequenceId |-> 0, polledAt |-> -1]

\* _reportTopic = "device/" + serial + "/report"; the serial stands for the topic
reportTopic(client) == client.serial

\* serial numbers in use; _instanceMap maps a topic to an adapter, 0 when absent
Serials == {"", "S1", "S2", "S3", "S4", "S5"}

\* BambuClient::registerInstance
registerInstance(m, slot) ==
    LET c == m.printers[slot]
        T == reportTopic(c)
    IN Log([m EXCEPT !.imap[T] = c.uid],
           [e |-> "register", uid |-> c.uid, topic |-> T])

\* a destructor that leaves the entry of its topic in the map
unregisterInstanceKeepsEntry(m, slot) ==
    LET c == m.printers[slot]
    IN Log(m, [e |-> "unregister", uid |-> c.uid, topic |-> reportTopic(c)])

\* BambuClient::unregisterInstance
unregisterInstance(m, slot) ==
    LET c == m.printers[slot]
        T == reportTopic(c)
    IN Log([m EXCEPT !.imap[T] = 0],
           [e |-> "unregister", uid |-> c.uid, topic |-> T])

\* BambuClient::sendCommand: publish on the request topic
sendCommand(m, slot) ==
    IF ~m.printers[slot].mqtt THEN [m EXCEPT !.ret = FALSE]
    ELSE Log([m EXCEPT !.ret = m.o.pubOk],
             [e |-> "publish", uid |-> m.printers[slot].uid,
              serial |-> m.printers[slot].serial, ok |-> m.o.pubOk])

\* BambuClient::getNextSequenceId
getNextSequenceId(m, slot) ==
    [m EXCEPT !.printers[slot].sequenceId = @ + 1]

\* BambuClient::pause / resume / stop: one "print" command each
printCommand(m, slot) == sendCommand(getNextSequenceId(m, slot), slot)

\* BambuClient::setLight: one ledctrl command for the chamber light; ret is
\* the result of the publish
setLight(m, slot, on) ==
    LET g == getNextSequenceId(m, slot)
    IN sendCommand(Log(g, [e |-> "ledctrl", uid |-> g.printers[slot].uid,
                           led_node |-> "chamber_light",
                           led_mode |-> IF on THEN "on" ELSE "off",
                           sequence_id |-> g.printers[slot].sequenceId]),
                   slot)

\* BambuClient::requestPushAll
requestPushAll(m, slot) ==
    IF ~m.printers[slot].mqtt THEN m
    ELSE sendCommand(getNextSequenceId(m, slot), slot)

\* BambuClient::connect
BambuConnect(m, slot) ==
    IF m.printers[slot].mqtt THEN [m EXCEPT !.ret = TRUE]
    ELSE LET r == registerInstance(m, slot)
         IN IF m.o.mqttOk
            THEN LET c == [r EXCEPT !.printers[slot].mqtt = TRUE,
                                    !.printers[slot].status.connected = TRUE,
                                    !.printers[slot].status.state = "UNKNOWN",
                                    !.printers[slot].lastReconnectAttempt = 0]
                 IN [requestPushAll(c, slot) EXCEPT !.ret = TRUE]
            ELSE [r EXCEPT !.printers[slot].status.connected = FALSE,
                           !.printers[slot].lastReconnectAttempt = m.now,
                           !.ret = FALSE]

\* BambuClient::disconnect
BambuDisconnect(m, slot) ==
    Log([m EXCEPT !.printers[slot].mqtt = FALSE,
                  !.printers[slot].status.connected = FALSE,
                  !.printers[slot].status.state = "OFFLINE"],
        [e |-> "disconnect", uid |-> m.printers[slot].uid,
         topic |-> reportTopic(m.printers[slot])])

\* BambuClient::~BambuClient followed by the slot pointer being cleared
BambuDestroy(m, slot) ==
    LET d == unregisterInstance(BambuDisconnect(m, slot), slot)
    IN [d EXCEPT !.printers[slot] = NullClient]

\* BambuClient::isConnected
BambuIsConnected(client) == client.mqtt

\* BambuClient::getStatus: the snapshot the caller receives
getStatus(client) == [client.status EXCEPT !.connected = BambuIsConnected(client)]

\* a call of getStatus() on the adapter in a slot: _status.connected is
\* refreshed in place and the snapshot goes to the caller
takeStatus(m, slot) ==
    LET status == getStatus(m.printers[slot])
    IN Log([m EXCEPT !.printers[slot].status = status],
           [e |-> "snapshot", uid |-> m.printers[slot].uid, status |-> status])

\* the mapping of gcode_state in BambuClient::handleMessage
gcodeStateToPrinterState(gcodeState) ==
    CASE gcodeState \in {"IDLE", "FINISH"} -> "IDLE"
      [] gcodeState \in {"RUNNING", "PREPARE"} -> "PRINTING"
      [] gcodeState = "PAUSE" -> "PAUSED"
      [] gcodeState = "FAILED" -> "ERROR"
      [] OTHER -> "UNKNOWN"

\* print["mc_remaining_time"].as<uint32_t>() * 60: the product of two uint32_t,
\* modulo 2^32, computed on the 16-bit halves of the minutes
minutesToSeconds(minutes) ==
    LET low == 60 * (minutes % 65536)
        high == (60 * (minutes \div 65536) + low \div 65536) % 65536
    IN high * 65536 + (low % 65536)

\* every delta starts from a blank snapshot: members that are absent reset
\* their fields
applyPrintZeroing(st, print) ==
    [st EXCEPT
       !.nozzleTemp = asFloat(print.nozzle_temper),
       !.nozzleTarget = asFloat(print.nozzle_target_temper),
       !.bedTemp = asFloat(print.bed_temper),
       !.bedTarget = asFloat(print.bed_target_temper),
       !.stateString = print.gcode_state.s,
       !.state = IF isString(print.gcode_state)
                 THEN gcodeStateToPrinterState(print.gcode_state.s) ELSE @,
       !.progressPercent = asFloat(print.mc_percent),
       !.remainingSeconds = minutesToSeconds(print.mc_remaining_time.n),
       !.currentLayer = print.layer_num.n,
       !.totalLayers = print.total_layer_num.n,
       !.filename = print.gcode_file.s]

\* the members of the "print" object applied to a snapshot
applyPrint(st, print) ==
    [st EXCEPT
       !.nozzleTemp = IF ~isNull(print.nozzle_temper)
                      THEN asFloat(print.nozzle_temper) ELSE @,
       !.nozzleTarget = IF ~isNull(print.nozzle_target_temper)
                        THEN asFloat(print.nozzle_target_temper) ELSE @,
       !.bedTemp = IF ~isNull(print.bed_temper)
                   THEN asFloat(print.bed_temper) ELSE @,
       !.bedTarget = IF ~isNull(print.bed_target_temper)
                     THEN asFloat(print.bed_target_temper) ELSE @,
       !.stateString = IF isString(print.gcode_state) THEN print.gcode_state.s ELSE @,
       !.state = IF isString(print.gcode_state)
                 THEN gcodeStateToPrinterState(print.gcode_state.s) ELSE @,
       !.progressPercent = IF isFloat(print.mc_percent)
                           THEN asFloat(print.mc_percent) ELSE @,
       !.remainingSeconds = IF isInt(print.mc_remaining_time)
                            THEN minutesToSeconds(print.mc_remaining_time.n) ELSE @,
       !.currentLayer = IF isInt(print.layer_num) THEN print.layer_num.n ELSE @,
       !.totalLayers = IF isInt(print.total_layer_num)
                       THEN print.total_layer_num.n ELSE @,
       !.filename = IF isString(print.gcode_file) THEN print.gcode_file.s ELSE @]

\* BambuClient::handleMessage
handleMessage(m, slot, payload) ==
    LET before == m.printers[slot].status
        after == IF ~payload.parses THEN before
                 ELSE [(IF payload.hasPrint THEN applyPrint(before, payload.print)
                        ELSE before)
                       EXCEPT !.lastUpdateMs = m.now]
    IN Log([m EXCEPT !.printers[slot].status = after],
           [e |-> "handled", uid |-> m.printers[slot].uid, payload |-> payload,
            before |-> before, after |-> after])

\* BambuClient::mqttCallbackStatic, called from the MQTT client of adapter via
mqttCallbackStatic(m, via, topic, payload) ==
    LET target == m.imap[topic]
        d == Log(m, [e |-> "mqtt", topic |-> topic, via |-> via, to |-> target])
    IN IF target # 0 /\ \E s \in DOMAIN m.printers : m.printers[s].uid = target
       THEN handleMessage(d, CHOOSE s \in DOMAIN m.printers : m.printers[s].uid = target,
                          payload)
       ELSE d

\* BambuClient::reconnect
BambuReconnect(m, slot) ==
    BambuConnect([m EXCEPT !.printers[slot].lastReconnectAttempt = m.now], slot)

\* _mqttClient->loop(): the reports that arrived on the subscription of this
\* adapter are handed to the static callback
RECURSIVE mqttLoop(_, _, _)
mqttLoop(m, slot, payloads) ==
    IF payloads = <<>> THEN m
    ELSE mqttLoop(mqttCallbackStatic(m, m.printers[slot].uid,
                                     reportTopic(m.printers[slot]), Head(payloads)),
                  slot, Tail(payloads))

\* BambuClient::poll; polledAt is history: millis() of the last connection
\* attempt poll() made for this adapter, -1 when it made none
BambuPoll(m, slot, payloads) ==
    IF m.printers[slot].mqtt THEN mqttLoop(m, slot, payloads)
    ELSE IF Elapsed(m, m.printers[slot].lastReconnectAttempt) >= BAMBU_RECONNECT_INTERVAL_MS
    THEN BambuReconnect(Log([m EXCEPT !.printers[slot].polledAt = m.now],
                            [e |-> "reconnect", uid |-> m.printers[slot].uid,
                             at |-> m.now, previous |-> m.printers[slot].polledAt]),
                        slot)
    ELSE m

----------------------------------------------------------------------------
(* PrinterConfigStore *)

NullConfig ==
    [valid |-> FALSE, id |-> "", type |-> "", name |-> "", ip |-> "",
     accessCode |-> "", serial |-> ""]

\* PrinterConfigStore::hasPrinter
hasPrinter(st, slot) == st[slot].valid

\* PrinterConfigStore::findAvailableSlot
findAvailableSlot(st) ==
    IF \E i \in Slots : ~hasPrinter(st, i)
    THEN CHOOSE i \in Slots : ~hasPrinter(st, i) /\ \A j \in Slots : j < i => hasPrinter(st, j)
    ELSE -1

\* PrinterConfigStore::savePrinter
savePrinter(m, slot, config) ==
    IF config.type = "" \/ config.ip = "" \/ ~m.o.nvsOk
    THEN [m EXCEPT !.ret = FALSE]
    ELSE [m EXCEPT !.store[slot] = [config EXCEPT !.valid = TRUE], !.ret = TRUE]

\* PrinterConfigStore::removePrinter
storeRemovePrinter(m, slot) ==
    IF m.o.nvsOk THEN [m EXCEPT !.store[slot] = NullConfig] ELSE m

\* PrinterConfigStore::loadPrinter: an empty id becomes type + "-" + slot
generatedId == <<"bambu-0", "bambu-1", "bambu-2", "bambu-3", "bambu-4">>

loadPrinter(st, slot) ==
    IF st[slot].id = "" THEN [st[slot] EXCEPT !.id = generatedId[slot + 1]]
    ELSE st[slot]

----------------------------------------------------------------------------
(* PrinterManager *)

\* PrinterManager::createClient succeeds for this type
canCreateClient(config) == config.type = "bambu"

\* what hasPrinter and loadPrinter read: a namespace that cannot be opened
\* reads as a slot without a valid record
readable(m) == IF m.o.nvsRead THEN m.store ELSE [i \in Slots |-> NullConfig]

\* PrinterManager::addPrinter; ret is the slot or -1
addPrinter(m, config) ==
    LET slot == findAvailableSlot(readable(m))
    IN IF slot < 0 THEN [m EXCEPT !.ret = -1]
       ELSE LET s == savePrinter(m, slot, config)
            IN IF ~s.ret THEN [s EXCEPT !.ret = -1]
               ELSE IF ~canCreateClient(config)
                    THEN [storeRemovePrinter(s, slot) EXCEPT !.ret = -1]
                    ELSE LET d == IF s.printers[slot].uid # 0
                                  THEN BambuDestroy(s, slot) ELSE s
                             c == [d EXCEPT
                                     !.printers[slot] = BambuClientNew(d.nextUid, config),
                                     !.nextUid = @ + 1,
                                     !.activeCount = (@ + 1) % 256]
                         IN [BambuConnect(c, slot) EXCEPT !.ret = slot]

\* PrinterManager::removePrinter
removePrinter(m, slot) ==
    LET d == IF m.printers[slot].uid # 0
             THEN [BambuDestroy(BambuDisconnect(m, slot), slot)
                      EXCEPT !.activeCount = (@ - 1) % 256]
             ELSE m
    IN storeRemovePrinter(d, slot)

RECURSIVE loadPrintersFrom(_, _)
loadPrintersFrom(m, slot) ==
    IF slot >= MAX_PRINTERS THEN m
    ELSE LET d == IF m.printers[slot].uid # 0 THEN BambuDestroy(m, slot) ELSE m
             config == loadPrinter(d.store, slot)
             c == IF hasPrinter(readable(d), slot) /\ canCreateClient(config)
                  THEN [d EXCEPT !.printers[slot] = BambuClientNew(d.nextUid, config),
                                 !.nextUid = @ + 1,
                                 !.activeCount = (@ + 1) % 256]
                  ELSE d
         IN loadPrintersFrom(c, slot + 1)

\* PrinterManager::loadPrinters
loadPrinters(m) == loadPrintersFrom([m EXCEPT !.activeCount = 0], 0)

RECURSIVE connectAllFrom(_, _)
connectAllFrom(m, slot) ==
    IF slot >= MAX_PRINTERS THEN m
    ELSE connectAllFrom(IF m.printers[slot].uid # 0 THEN BambuConnect(m, slot) ELSE m,
                        slot + 1)

\* PrinterManager::connectAll
connectAll(m) == connectAllFrom(m, 0)

RECURSIVE disconnectAllFrom(_, _)
disconnectAllFrom(m, slot) ==
    IF slot >= MAX_PRINTERS THEN m
    ELSE disconnectAllFrom(IF m.printers[slot].uid # 0 THEN BambuDisconnect(m, slot) ELSE m,
                           slot + 1)

\* PrinterManager::disconnectAll
disconnectAll(m) == disconnectAllFrom(m, 0)

RECURSIVE logTemperaturesFrom(_, _)
logTemperaturesFrom(m, slot) ==
    IF slot >= MAX_PRINTERS THEN m
    ELSE logTemperaturesFrom(IF m.printers[slot].uid # 0
                                /\ BambuIsConnected(m.printers[slot])
                             THEN takeStatus(m, slot) ELSE m,
                             slot + 1)

\* PrinterManager::logTemperatures
logTemperatures(m) == logTemperaturesFrom(m, 0)

\* the loop of PrinterManager::poll; reports arrive on the adapter in slot `at`
RECURSIVE pollPrintersFrom(_, _, _, _)
pollPrintersFrom(m, slot, at, payloads) ==
    IF slot >= MAX_PRINTERS THEN m
    ELSE pollPrintersFrom(IF m.printers[slot].uid # 0
                          THEN BambuPoll(m, slot, IF slot = at THEN payloads ELSE <<>>)
                          ELSE m,
                          slot + 1, at, payloads)

\* PrinterManager::poll
PrinterManagerPoll(m, at, payloads) ==
    LET p == pollPrintersFrom(m, 0, at, payloads)
    IN IF Elapsed(p, p.lastTempLog) >= TEMP_LOG_INTERVAL_MS
       THEN logTemperatures([p EXCEPT !.lastTempLog = m.now])
       ELSE p

\* PrinterManager::getPrinterStatus
getPrinterStatus(m, slot) ==
    IF m.printers[slot].uid = 0 THEN [m EXCEPT !.ret = FALSE]
    ELSE [takeStatus(m, slot) EXCEPT !.ret = TRUE]

RECURSIVE updatePrinterStatusFrom(_, _)
updatePrinterStatusFrom(m, slot) ==
    IF slot >= MAX_PRINTERS THEN m
    ELSE updatePrinterStatusFrom(getPrinterStatus(m, slot), slot + 1)

\* BLEProvisioning::updatePrinterStatus
updatePrinterStatus(m) == updatePrinterStatusFrom(m, 0)

\* a printer request written to the BLE characteristic; Null is an absent member
BleRequest(action, slot, on, type, ip, accessCode, serial) ==
    [action |-> action, slot |-> slot, on |-> on, type |-> type, ip |-> ip,
     accessCode |-> accessCode, serial |-> serial]

\* doc[key] | fallback of ArduinoJson
OrDefault(x, fallback) == IF x = Null THEN fallback ELSE x

\* BLEProvisioning::processPrinterConfig
processPrinterConfig(m0, req) ==
    LET m == Log(m0, [e |-> "ble", request |-> req])
    IN IF req.action = "add"
       THEN LET config == [valid |-> FALSE, id |-> "",
                           type |-> OrDefault(req.type, "bambu"),
                           name |-> "Printer", ip |-> OrDefault(req.ip, ""),
                           accessCode |-> OrDefault(req.accessCode, ""),
                           serial |-> OrDefault(req.serial, "")]
            IN IF config.ip = "" THEN m
               ELSE IF config.type = "bambu"
                       /\ (config.accessCode = "" \/ config.serial = "")
               THEN m
               ELSE LET a == addPrinter(m, config)
                    IN IF a.ret >= 0 THEN updatePrinterStatus(a) ELSE a
       ELSE IF req.action = "remove"
       THEN updatePrinterStatus(IF req.slot >= MAX_PRINTERS THEN m
                                ELSE removePrinter(m, req.slot))
       ELSE IF req.action = "list" THEN updatePrinterStatus(m)
       ELSE IF req.action = "light"
       THEN IF req.slot < MAX_PRINTERS /\ m.printers[req.slot].uid # 0
               /\ BambuIsConnected(m.printers[req.slot])
            THEN LET l == setLight(m, req.slot, req.on)
                 IN Log(l, [e |-> "set_light", uid |-> l.printers[req.slot].uid,
                            on |-> req.on, ok |-> l.ret])
            ELSE m
       ELSE m

----------------------------------------------------------------------------
(* TunnelClient: state, socket, outgoing messages *)

\* TunnelClient::setState
setState(m, newState) ==
    IF m.t.state # newState
    THEN Log([m EXCEPT !.t.state = newState,
                       !.hist.lastBroadcast = IF newState = "CONNECTED" THEN -1 ELSE @,
                       !.hist.failedAt = IF newState = "FAILED" THEN m.now ELSE -1],
             [e |-> "state", from |-> m.t.state, to |-> newState])
    ELSE m

\* a closed socket always ends in OFFLINE
onDisconnectGoesOffline(m) == setState(m, "OFFLINE")

\* TunnelClient::onDisconnect
onDisconnect(m) ==
    IF m.t.state \in {"CONNECTED", "AUTHENTICATING"}
    THEN [setState(m, "RECONNECTING") EXCEPT !.t.lastReconnectAttempt = m.now]
    ELSE setState(m, "OFFLINE")

\* _wsClient.available(): a transport that died unnoticed is detected here and
\* the ConnectionClosed event fires (TunnelClient::begin, event callback)
wsAvailable(m) ==
    IF m.ws = "dropped" THEN onDisconnect([m EXCEPT !.ws = "closed"]) ELSE m

\* _wsClient.close(): closes an open socket and fires ConnectionClosed
wsClose(m) ==
    IF m.ws = "closed" THEN m ELSE onDisconnect([m EXCEPT !.ws = "closed"])

\* TunnelClient::sendMessage
sendMessage(m, msg) ==
    IF m.ws = "open" THEN Log(m, [e |-> "send", msg |-> msg]) ELSE wsAvailable(m)

\* TunnelClient::sendHubHello
sendHubHello(m) == sendMessage(m, [type |-> "hub_hello"])

\* String(const char*) of a null pointer is the empty string
StringOf(cstr) == IF cstr = Null THEN "" ELSE cstr

\* TunnelClient::sendCommandAck
sendCommandAck(m, commandId, success, error) ==
    sendMessage(m, [type |-> "command_ack", command_id |-> StringOf(commandId),
                    success |-> success,
                    error |-> IF ~success /\ error # "" THEN error ELSE Null])

\* TunnelClient::printerStateToCloudStatus
printerStateToCloudStatus(state) ==
    CASE state = "IDLE" -> "idle"
      [] state = "PRINTING" -> "printing"
      [] state = "PAUSED" -> "paused"
      [] state = "ERROR" -> "error"
      [] OTHER -> "offline"

\* TunnelClient::sendPrinterStatus
sendPrinterStatus(m, printerId, status) ==
    IF m.t.state # "CONNECTED" THEN m
    ELSE sendMessage(m, [type |-> "printer_status", printer_id |-> printerId,
                         status |-> printerStateToCloudStatus(status.state),
                         progress_percentage |-> status.progressPercent,
                         remaining_time_seconds |-> status.remainingSeconds,
                         current_layer |-> status.currentLayer,
                         total_layers |-> status.totalLayers,
                         nozzle |-> status.nozzleTemp, bed |-> status.bedTemp])

RECURSIVE broadcastFrom(_, _)
broadcastFrom(m, slot) ==
    IF slot >= MAX_PRINTERS THEN m
    ELSE IF m.printers[slot].uid = 0 THEN broadcastFrom(m, slot + 1)
    ELSE LET status == getStatus(m.printers[slot])
             g == takeStatus(m, slot)
         IN broadcastFrom(IF g.printers[slot].id # ""
                          THEN sendPrinterStatus(g, g.printers[slot].id, status)
                          ELSE g,
                          slot + 1)

\* TunnelClient::broadcastAllPrinterStatus
broadcastAllPrinterStatus(m) ==
    broadcastFrom(Log([m EXCEPT !.hist.lastBroadcast = m.now],
                      [e |-> "broadcast", state |-> m.t.state,
                       slots |-> [i \in Slots |->
                                    IF m.printers[i].uid # 0
                                    THEN m.printers[i].serial ELSE Null],
                       sincePrevious |-> IF m.hist.lastBroadcast < 0 THEN -1
                                         ELSE m.now - m.hist.lastBroadcast]),
                  0)

\* TunnelClient::findPrinterBySerial: compares getPrinterId() with the serial
findPrinterBySerial(m, serial) ==
    LET hit(i) == m.printers[i].uid # 0 /\ m.printers[i].id = serial
    IN IF \E i \in Slots : hit(i)
       THEN CHOOSE i \in Slots : hit(i) /\ \A j \in Slots : j < i => ~hit(j)
       ELSE -1

----------------------------------------------------------------------------
(* TunnelClient: inbound message handlers *)

\* the reconnect counter survives the welcome
handleHubWelcomeKeepsCounter(m, f) ==
    LET c == setState(m, "CONNECTED")
    IN broadcastAllPrinterStatus(
           [c EXCEPT !.t.lastPingTime = m.now, !.t.lastStatusBroadcast = 0])

\* TunnelClient::handleHubWelcome
handleHubWelcome(m, f) ==
    LET c == setState(m, "CONNECTED")
    IN broadcastAllPrinterStatus(
           [c EXCEPT !.t.reconnectAttempts = 0,
                     !.t.lastPingTime = m.now,
                     !.t.lastStatusBroadcast = 0])

\* PrinterConfig built from the "printer" object of configure_printer
configOf(printer) ==
    [valid |-> FALSE,
     id |-> StringOf(printer.id),
     type |-> IF printer.connection_type # Null THEN printer.connection_type ELSE "bambu",
     name |-> StringOf(printer.serial_number),
     ip |-> StringOf(printer.ip_address),
     accessCode |-> StringOf(printer.access_code),
     serial |-> StringOf(printer.serial_number)]

\* TunnelClient::handleConfigurePrinter
handleConfigurePrinter(m, f) ==
    IF f.command_id = Null \/ f.action = Null THEN m
    ELSE IF ~f.printer.present
    THEN sendCommandAck(m, f.command_id, FALSE, "Missing printer object")
    ELSE IF f.action = "add"
    THEN IF f.printer.serial_number = Null \/ f.printer.connection_type = Null
         THEN sendCommandAck(m, f.command_id, FALSE,
                             "Missing serial_number or connection_type")
         ELSE LET a == addPrinter(m, configOf(f.printer))
              IN sendCommandAck(a, f.command_id, a.ret >= 0,
                                IF a.ret >= 0 THEN ""
                                ELSE "Failed to add printer - no free slots")
    ELSE IF f.action = "remove"
    THEN IF f.printer.serial_number = Null
         THEN sendCommandAck(m, f.command_id, FALSE, "Missing serial_number")
         ELSE LET slot == findPrinterBySerial(m, f.printer.serial_number)
              IN IF slot >= 0
                 THEN sendCommandAck(removePrinter(m, slot), f.command_id, TRUE, "")
                 ELSE sendCommandAck(m, f.command_id, FALSE, "Printer not found")
    ELSE IF f.action = "update"
    THEN IF f.printer.serial_number = Null
         THEN sendCommandAck(m, f.command_id, FALSE, "Missing serial_number")
         ELSE LET slot == findPrinterBySerial(m, f.printer.serial_number)
              IN IF slot >= 0
                 THEN LET a == addPrinter(removePrinter(m, slot), configOf(f.printer))
                      IN sendCommandAck(a, f.command_id, a.ret >= 0,
                                        IF a.ret >= 0 THEN ""
                                        ELSE "Failed to re-add printer after update")
                 ELSE sendCommandAck(m, f.command_id, FALSE, "Printer not found")
    ELSE sendCommandAck(m, f.command_id, FALSE, "Unknown action: " \o f.action)

\* TunnelClient::handlePrinterCommand
handlePrinterCommand(m, f) ==
    IF f.command_id = Null \/ f.printer_id = Null \/ f.action = Null THEN m
    ELSE LET slot == findPrinterBySerial(m, f.printer_id)
         IN IF slot < 0
            THEN sendCommandAck(m, f.command_id, FALSE, "Printer not found")
            ELSE IF ~BambuIsConnected(m.printers[slot])
            THEN sendCommandAck(m, f.command_id, FALSE, "Printer not connected")
            ELSE IF f.action \in {"pause", "resume", "stop"}
            THEN LET c == printCommand(m, slot)
                     errorMsg == CASE f.action = "pause" -> "Pause command failed"
                                   [] f.action = "resume" -> "Resume command failed"
                                   [] OTHER -> "Stop command failed"
                 IN sendCommandAck(c, f.command_id, c.ret,
                                   IF c.ret THEN "" ELSE errorMsg)
            ELSE IF f.action = "clear_bed"
            THEN sendCommandAck(m, f.command_id, TRUE, "")
            ELSE sendCommandAck(m, f.command_id, FALSE, "Unknown action: " \o f.action)

\* the acknowledgement is sent twice
handlePrintCommandTwice(m, f) ==
    sendCommandAck(sendCommandAck(m, f.command_id, FALSE, "print_command not yet implemented"),
                   f.command_id, FALSE, "print_command not yet implemented")

\* TunnelClient::handlePrintCommand
handlePrintCommand(m, f) ==
    sendCommandAck(m, f.command_id, FALSE, "print_command not yet implemented")

\* TunnelClient::handleDiscoverPrinters
handleDiscoverPrinters(m, f) ==
    sendCommandAck(m, f.command_id, FALSE, "discover_printers not yet implemented")

\* TunnelClient::onMessage
onMessage(m, f) ==
    IF f.kind # "text" THEN m          \* binary frame
    ELSE IF ~f.parses THEN m           \* deserializeJson error
    ELSE IF f.type = Null THEN m
    ELSE CASE f.type = "hub_welcome" -> handleHubWelcome(m, f)
           [] f.type = "configure_printer" -> handleConfigurePrinter(m, f)
           [] f.type = "printer_command" -> handlePrinterCommand(m, f)
           [] f.type = "print_command" -> handlePrintCommand(m, f)
           [] f.type = "discover_printers" -> handleDiscoverPrinters(m, f)
           [] f.type = "error" -> m
           [] OTHER -> m

\* TunnelClient::begin, event callback: only a pong is recorded, in _lastPongTime
onEvent(m, f) ==
    IF f.kind = "pong" THEN [m EXCEPT !.t.lastPongTime = m.now] ELSE m

\* _wsClient.poll(): delivers the frames that arrived, in order, while the
\* socket stays available; dropAt = k means the transport dies while the
\* k-th frame is being handled (0: it stays up)
RECURSIVE wsPoll(_, _, _)
wsPoll(m, frames, dropAt) ==
    LET a == wsAvailable(m)
    IN IF a.ws # "open" \/ frames = <<>> THEN a
       ELSE LET f == Head(frames)
                r == Log([a EXCEPT !.ws = IF dropAt = 1 THEN "dropped" ELSE @,
                                   !.hist.lastInbound = m.now],
                         [e |-> "recv", frame |-> f])
            IN wsPoll(IF f.kind \in {"text", "binary"} THEN onMessage(r, f)
                      ELSE onEvent(r, f),
                      Tail(frames), dropAt - 1)

----------------------------------------------------------------------------
(* TunnelClient: connection management and polling *)

\* the open socket is taken for an authenticated session
onConnectSkipsWelcome(m) ==
    LET a == setState(m, "CONNECTED")
    IN sendHubHello([a EXCEPT !.t.authStartTime = m.now, !.t.lastPongTime = m.now,
                              !.hist.lastInbound = m.now])

\* TunnelClient::onConnect
onConnect(m) ==
    LET a == setState(m, "AUTHENTICATING")
    IN sendHubHello([a EXCEPT !.t.authStartTime = m.now, !.t.lastPongTime = m.now,
                              !.hist.lastInbound = m.now])

\* the cloud URL compiled into the firmware
CLOUD_DEFAULT_URL == "wss://default"

\* TunnelConfigStore::getCloudUrl
getCloudUrl(m) == IF m.binding.cloudUrl = "" THEN CLOUD_DEFAULT_URL ELSE m.binding.cloudUrl

\* TunnelConfigStore::getTenantId
getTenantId(m) == m.binding.tenantId

\* TunnelConfigStore::getClaimToken
getClaimToken(m) == m.binding.claimToken

\* TunnelConfigStore::setRegistered; ret is success
setRegistered(m, value) ==
    IF m.o.nvsFlag THEN [m EXCEPT !.registered = value, !.ret = TRUE]
    ELSE [m EXCEPT !.ret = FALSE]

\* the response to the registration POST: 200/201 with a JSON body ("ok"),
\* 200/201 with a body deserializeJson rejects ("badbody"), 409 ("conflict"),
\* any other code or no response at all ("error")
httpCode(outcome) ==
    CASE outcome \in {"ok", "badbody"} -> 200
      [] outcome = "conflict" -> 409
      [] OTHER -> 500

\* TunnelClient::registerWithCloud; ret is success
registerWithCloud(m0) ==
    LET m == Log(m0, [e |-> "post", url |-> getCloudUrl(m0),
                      tenant_id |-> getTenantId(m0) # "",
                      claim_token |-> getClaimToken(m0) # "",
                      tenant |-> getTenantId(m0), token |-> getClaimToken(m0),
                      code |-> httpCode(m0.o.http)])
    IN IF m.o.http \in {"ok", "conflict"}
       THEN [setRegistered(m, TRUE) EXCEPT !.ret = TRUE]
       ELSE [m EXCEPT !.ret = FALSE]

\* _wsClient.connect(url): on success the ConnectionOpened event fires before
\* it returns
wsConnect(m) ==
    IF m.o.wsOk THEN [onConnect([m EXCEPT !.ws = "open"]) EXCEPT !.ret = TRUE]
    ELSE [m EXCEPT !.ws = "closed", !.ret = FALSE]

\* connect() that does not look at the link
connectIgnoresLink(m) ==
    IF m.t.state \in {"CONNECTING", "CONNECTED", "REGISTERING"} THEN m
    ELSE LET r == IF ~m.registered
                  THEN registerWithCloud(setState(m, "REGISTERING"))
                  ELSE [m EXCEPT !.ret = TRUE]
         IN IF ~r.ret
            THEN [setState(r, "RECONNECTING") EXCEPT !.t.lastReconnectAttempt = m.now]
            ELSE LET c == wsConnect(setState(r, "CONNECTING"))
                 IN IF ~c.ret
                    THEN [setState(c, "RECONNECTING") EXCEPT !.t.lastReconnectAttempt = m.now]
                    ELSE c

\* TunnelClient::connect
connect(m) ==
    IF m.t.state \in {"CONNECTING", "CONNECTED", "REGISTERING"} THEN m
    ELSE IF ~m.wifiUp THEN setState(m, "OFFLINE")
    ELSE LET r == IF ~m.registered
                  THEN registerWithCloud(setState(m, "REGISTERING"))
                  ELSE [m EXCEPT !.ret = TRUE]
         IN IF ~r.ret
            THEN [setState(r, "RECONNECTING") EXCEPT !.t.lastReconnectAttempt = m.now]
            ELSE LET c == wsConnect(setState(r, "CONNECTING"))
                 IN IF ~c.ret
                    THEN [setState(c, "RECONNECTING") EXCEPT !.t.lastReconnectAttempt = m.now]
                    ELSE c

\* TunnelClient::disconnect
disconnect(m) ==
    IF m.t.state = "OFFLINE" THEN m
    ELSE [setState(wsClose(m), "OFFLINE") EXCEPT !.t.reconnectAttempts = 0]

\* a heartbeat that pings but never gives the session up
handleHeartbeatNoTimeout(m) ==
    IF Elapsed(m, m.t.lastPingTime) >= TUNNEL_PING_INTERVAL_MS
    THEN LET q == [m EXCEPT !.t.lastPingTime = m.now]
         IN IF q.ws = "open" THEN Log(q, [e |-> "ping"]) ELSE q
    ELSE m

\* TunnelClient::handleHeartbeat
handleHeartbeat(m) ==
    LET p == IF Elapsed(m, m.t.lastPingTime) >= TUNNEL_PING_INTERVAL_MS
             THEN LET q == [m EXCEPT !.t.lastPingTime = m.now]
                  IN IF q.ws = "open" THEN Log(q, [e |-> "ping"]) ELSE q
             ELSE m
    IN IF Elapsed(p, p.t.lastPongTime) > TUNNEL_PONG_TIMEOUT_MS
       THEN LET q == Log(p, [e |-> "heartbeat_timeout",
                             idle |-> m.now - m.hist.lastInbound])
            IN [setState(wsClose(q), "RECONNECTING") EXCEPT !.t.lastReconnectAttempt = m.now]
       ELSE p

RECURSIVE reconnectDelayLoop(_, _, _)
reconnectDelayLoop(delay, i, attempts) ==
    IF i < attempts /\ i < 10
    THEN IF delay * 2 > TUNNEL_RECONNECT_MAX_MS THEN TUNNEL_RECONNECT_MAX_MS
         ELSE reconnectDelayLoop(delay * 2, i + 1, attempts)
    ELSE delay

\* TunnelClient::getReconnectDelay
getReconnectDelay(m) ==
    reconnectDelayLoop(TUNNEL_RECONNECT_INITIAL_MS, 0, m.t.reconnectAttempts)

\* TunnelClient::attemptReconnect
attemptReconnectNoLimit(m) ==
    IF Elapsed(m, m.t.lastReconnectAttempt) < getReconnectDelay(m) THEN m
    ELSE connect(Log([m EXCEPT !.t.reconnectAttempts = (@ + 1) % 256,
                               !.t.lastReconnectAttempt = m.now],
                     [e |-> "attempt", delay |-> getReconnectDelay(m),
                      waited |-> Elapsed(m, m.t.lastReconnectAttempt)]))

\* TunnelClient::attemptReconnect
attemptReconnect(m) ==
    IF Elapsed(m, m.t.lastReconnectAttempt) < getReconnectDelay(m) THEN m
    ELSE LET a == Log([m EXCEPT !.t.reconnectAttempts = (@ + 1) % 256,
                                !.t.lastReconnectAttempt = m.now],
                      [e |-> "attempt", delay |-> getReconnectDelay(m),
                       waited |-> Elapsed(m, m.t.lastReconnectAttempt)])
         IN IF a.t.reconnectAttempts > TUNNEL_MAX_RECONNECT_ATTEMPTS
            THEN setState(a, "FAILED")
            ELSE connect(a)

\* the authentication deadline is never checked
pollAuthenticatingNoDeadline(m, frames, dropAt) == wsPoll(m, frames, dropAt)

\* TunnelClient::poll, case AUTHENTICATING
pollAuthenticating(m, frames, dropAt) ==
    LET p == wsPoll(m, frames, dropAt)
    IN IF Elapsed(p, p.t.authStartTime) > TUNNEL_AUTH_TIMEOUT_MS
       THEN [setState(wsClose(p), "RECONNECTING") EXCEPT !.t.lastReconnectAttempt = m.now]
       ELSE p

\* the latest frame first
NewestFirst(frames) == [i \in DOMAIN frames |-> frames[Len(frames) + 1 - i]]

\* a poll() whose socket hands over the frames that arrived newest first
pollNewestFirst(m0, frames, dropAt) ==
    LET m == Log(m0, [e |-> "poll", state |-> m0.t.state, wifi |-> m0.wifiUp,
                      attempts |-> m0.t.reconnectAttempts,
                      arrived |-> frames,
                      socket |-> m0.ws,
                      idle |-> m0.now - m0.hist.lastInbound,
                      failedAt |-> m0.hist.failedAt,
                      authElapsed |-> Elapsed(m0, m0.t.authStartTime)])
    IN
    IF ~m.wifiUp
    THEN IF m.t.state # "OFFLINE" THEN setState(wsClose(m), "OFFLINE") ELSE m
    ELSE CASE m.t.state = "CONNECTING" -> wsPoll(m, NewestFirst(frames), dropAt)
           [] m.t.state = "AUTHENTICATING" -> pollAuthenticating(m, NewestFirst(frames), dropAt)
           [] m.t.state = "CONNECTED" ->
                LET h == handleHeartbeat(wsPoll(m, NewestFirst(frames), dropAt))
                IN IF Elapsed(h, h.t.lastStatusBroadcast) >= TUNNEL_STATUS_BROADCAST_MS
                   THEN broadcastAllPrinterStatus([h EXCEPT !.t.lastStatusBroadcast = m.now])
                   ELSE h
           [] m.t.state = "RECONNECTING" -> attemptReconnect(m)
           [] OTHER -> m

\* TunnelClient::poll
poll(m0, frames, dropAt) ==
    LET m == Log(m0, [e |-> "poll", state |-> m0.t.state, wifi |-> m0.wifiUp,
                      attempts |-> m0.t.reconnectAttempts,
                      arrived |-> frames,
                      socket |-> m0.ws,
                      idle |-> m0.now - m0.hist.lastInbound,
                      failedAt |-> m0.hist.failedAt,
                      authElapsed |-> Elapsed(m0, m0.t.authStartTime)])
    IN
    IF ~m.wifiUp
    THEN IF m.t.state # "OFFLINE" THEN setState(wsClose(m), "OFFLINE") ELSE m
    ELSE CASE m.t.state = "CONNECTING" -> wsPoll(m, frames, dropAt)
           [] m.t.state = "AUTHENTICATING" -> pollAuthenticating(m, frames, dropAt)
           [] m.t.state = "CONNECTED" ->
                LET h == handleHeartbeat(wsPoll(m, frames, dropAt))
                IN IF Elapsed(h, h.t.lastStatusBroadcast) >= TUNNEL_STATUS_BROADCAST_MS
                   THEN broadcastAllPrinterStatus([h EXCEPT !.t.lastStatusBroadcast = m.now])
                   ELSE h
           [] m.t.state = "RECONNECTING" -> attemptReconnect(m)
           [] OTHER -> m

----------------------------------------------------------------------------
(* CloudClient: the second tunnel implementation (cloud/CloudClient.cpp) *)

\* CloudClient::transitionTo
transitionTo(m, newState) ==
    IF m.c.state = newState THEN m
    ELSE LET s == Log([m EXCEPT !.c.state = newState],
                      [e |-> "cloud_state", from |-> m.c.state, to |-> newState])
         IN CASE newState = "FAILED" -> [s EXCEPT !.c.failedStateStartTime = m.now]
              [] newState = "RECONNECTING" -> [s EXCEPT !.c.lastReconnectAttempt = 0]
              [] OTHER -> s

\* CloudClient::onDisconnect
cloudOnDisconnect(m) ==
    IF m.c.state \in {"CONNECTED", "AUTHENTICATING"}
    THEN transitionTo(m, "RECONNECTING")
    ELSE m

\* _wsClient.available() of the CloudClient socket
cloudWsAvailable(m) ==
    IF m.cws = "dropped" THEN cloudOnDisconnect([m EXCEPT !.cws = "closed"]) ELSE m

\* _wsClient.close() of the CloudClient socket
cloudWsClose(m) ==
    IF m.cws = "closed" THEN m ELSE cloudOnDisconnect([m EXCEPT !.cws = "closed"])

\* CloudClient::sendMessage
cloudSendMessage(m, msg) ==
    IF m.cws = "open"
    THEN Log([m EXCEPT !.c.lastActivityTime = m.now], [e |-> "cloud_send", msg |-> msg])
    ELSE cloudWsAvailable(m)

\* CloudClient::sendHubHello
cloudSendHubHello(m) == cloudSendMessage(m, [type |-> "hub_hello"])

\* CloudClient::sendCommandAck
cloudSendCommandAck(m, commandId, success, error) ==
    cloudSendMessage(m, [type |-> "command_ack", command_id |-> commandId,
                         success |-> success,
                         error |-> IF error # "" THEN error ELSE Null])

\* HubConfigStore::saveHubName; ret is success
saveHubName(m, name) ==
    IF m.o.nvsOk THEN [m EXCEPT !.hub.name = name, !.ret = TRUE]
    ELSE [m EXCEPT !.ret = FALSE]

\* CloudClient::handleHubWelcome
cloudHandleHubWelcome(m, f) ==
    LET n == IF f.hub_name # Null /\ f.hub_name # "" /\ m.hub.name # f.hub_name
             THEN saveHubName(m, f.hub_name)
             ELSE m
    IN IF n.c.state = "AUTHENTICATING"
       THEN [transitionTo(n, "CONNECTED") EXCEPT !.c.lastPingTime = m.now]
       ELSE n

\* CloudClient::handleHubConfig
cloudHandleHubConfig(m, f) ==
    LET n == IF f.hub_name # Null /\ m.hub.name # f.hub_name
             THEN saveHubName(m, f.hub_name)
             ELSE [m EXCEPT !.ret = TRUE]
    IN IF f.command_id # Null
       THEN cloudSendCommandAck(n, f.command_id, n.ret,
                                IF n.ret THEN "" ELSE "Failed to save hub name")
       ELSE n

\* CloudClient::handleConfigurePrinter, handlePrinterCommand, handlePrintCommand:
\* the frame is logged and nothing else happens
cloudHandleConfigurePrinter(m, f) == m

cloudHandlePrinterCommand(m, f) == m

cloudHandlePrintCommand(m, f) == m

\* CloudClient::handleDiscoverPrinters
cloudHandleDiscoverPrinters(m, f) == cloudSendCommandAck(m, f.command_id, TRUE, "")

\* a disconnect() that closes the socket and leaves the state to the callback
cloudDisconnectByCallback(m) == cloudWsClose(m)

\* CloudClient::disconnect
cloudDisconnect(m) == transitionTo(cloudWsClose(m), "OFFLINE")

\* CloudClient::handleHubCommand
cloudHandleHubCommand(m, f) ==
    IF f.action = Null \/ f.command_id = Null THEN m
    ELSE IF f.action = "disconnect"
    THEN cloudDisconnect(
             cloudSendCommandAck([m EXCEPT !.c.cloudDisabled = TRUE], f.command_id, TRUE, ""))
    ELSE IF f.action = "gpio_set"
    THEN IF f.gpio_pin >= 0
         THEN cloudSendCommandAck(m, f.command_id, TRUE, "")
         ELSE cloudSendCommandAck(m, f.command_id, FALSE, "Invalid GPIO pin")
    ELSE cloudSendCommandAck(m, f.command_id, FALSE, "Unknown hub command action")

\* CloudClient::onMessage
cloudOnMessage(m0, f) ==
    LET m == [m0 EXCEPT !.c.lastActivityTime = m0.now]
    IN IF f.kind # "text" \/ ~f.parses \/ f.type = Null THEN m
       ELSE CASE f.type = "hub_welcome" -> cloudHandleHubWelcome(m, f)
              [] f.type = "hub_config" -> cloudHandleHubConfig(m, f)
              [] f.type = "configure_printer" -> cloudHandleConfigurePrinter(m, f)
              [] f.type = "printer_command" -> cloudHandlePrinterCommand(m, f)
              [] f.type = "print_command" -> cloudHandlePrintCommand(m, f)
              [] f.type = "discover_printers" -> cloudHandleDiscoverPrinters(m, f)
              [] f.type = "hub_command" -> cloudHandleHubCommand(m, f)
              [] OTHER -> m

\* CloudClient::onEvent for GotPing and GotPong
cloudOnEvent(m, f) ==
    IF f.kind \in {"ping", "pong"} THEN [m EXCEPT !.c.lastActivityTime = m.now] ELSE m

\* _wsClient.poll() of the CloudClient socket
RECURSIVE cloudWsPoll(_, _, _)
cloudWsPoll(m, frames, dropAt) ==
    LET a == cloudWsAvailable(m)
    IN IF a.cws # "open" \/ frames = <<>> THEN a
       ELSE LET f == Head(frames)
                r == Log([a EXCEPT !.cws = IF dropAt = 1 THEN "dropped" ELSE @],
                         [e |-> "cloud_recv", frame |-> f, dropped |-> dropAt = 1])
            IN cloudWsPoll(IF f.kind \in {"text", "binary"} THEN cloudOnMessage(r, f)
                           ELSE cloudOnEvent(r, f),
                           Tail(frames), dropAt - 1)

\* CloudClient::onConnect
cloudOnConnect(m) ==
    LET a == transitionTo([m EXCEPT !.c.reconnectAttempts = 0,
                                    !.c.lastActivityTime = m.now],
                          "AUTHENTICATING")
    IN cloudSendHubHello([a EXCEPT !.c.authStartTime = m.now])

\* _wsClient.connect(url) of the CloudClient socket
cloudWsConnect(m) ==
    IF m.o.wsOk THEN [cloudOnConnect([m EXCEPT !.cws = "open"]) EXCEPT !.ret = TRUE]
    ELSE [m EXCEPT !.cws = "closed", !.ret = FALSE]

\* CloudClient::connect
cloudConnect(m) ==
    IF m.c.state \notin {"OFFLINE", "RECONNECTING"} THEN m
    ELSE IF ~m.hub.valid THEN m
    ELSE LET c == cloudWsConnect(transitionTo(m, "CONNECTING"))
         IN IF ~c.ret THEN transitionTo(c, "RECONNECTING") ELSE c

\* CloudClient::handleHeartbeat
cloudHandleHeartbeat(m) ==
    LET p == IF Elapsed(m, m.c.lastPingTime) > CLOUD_PING_INTERVAL_MS
             THEN LET q == [m EXCEPT !.c.lastPingTime = m.now]
                  IN IF q.cws = "open" THEN Log(q, [e |-> "cloud_ping"]) ELSE q
             ELSE m
    IN IF Elapsed(p, p.c.lastActivityTime) > CLOUD_PONG_TIMEOUT_MS
       THEN transitionTo(cloudWsClose(p), "RECONNECTING")
       ELSE p

\* 1 << n for the shift counts a uint8_t counter below the attempt limit takes
RECURSIVE ShiftLeft(_, _)
ShiftLeft(x, n) == IF n = 0 THEN x ELSE ShiftLeft(2 * x, n - 1)

\* CloudClient::getReconnectDelay
cloudGetReconnectDelay(m) ==
    LET delay == ShiftLeft(CLOUD_RECONNECT_INITIAL_MS, m.c.reconnectAttempts)
    IN IF delay > CLOUD_RECONNECT_MAX_MS THEN CLOUD_RECONNECT_MAX_MS ELSE delay

\* CloudClient::attemptReconnect
cloudAttemptReconnect(m) ==
    IF Elapsed(m, m.c.lastReconnectAttempt) < cloudGetReconnectDelay(m) THEN m
    ELSE LET a == Log([m EXCEPT !.c.reconnectAttempts = (@ + 1) % 256,
                                !.c.lastReconnectAttempt = m.now],
                      [e |-> "cloud_attempt", delay |-> cloudGetReconnectDelay(m)])
         IN IF a.c.reconnectAttempts > CLOUD_MAX_RECONNECT_ATTEMPTS
            THEN transitionTo(a, "FAILED")
            ELSE [cloudWsConnect(a) EXCEPT !.ret = FALSE]

\* CloudClient::poll
cloudPoll(m0, frames, dropAt) ==
    LET l == Log(m0, [e |-> "cloud_poll", state |-> m0.c.state])
        m == IF l.cws # "closed" THEN cloudWsPoll(l, frames, dropAt) ELSE l
    IN CASE m.c.state = "AUTHENTICATING" ->
              IF Elapsed(m, m.c.authStartTime) > CLOUD_AUTH_TIMEOUT_MS
              THEN transitionTo(cloudWsClose(m), "RECONNECTING")
              ELSE m
         [] m.c.state = "CONNECTED" -> cloudHandleHeartbeat(m)
         [] m.c.state = "RECONNECTING" -> cloudAttemptReconnect(m)
         [] m.c.state = "FAILED" ->
              IF Elapsed(m, m.c.failedStateStartTime) > CLOUD_FAILED_RESET_MS
              THEN transitionTo([m EXCEPT !.c.reconnectAttempts = 0], "OFFLINE")
              ELSE m
         [] OTHER -> m

----------------------------------------------------------------------------
(* Inputs: cloud frames and the outcomes of calls into the environment *)

NoPrinterObject ==
    [present |-> FALSE, id |-> Null, serial_number |-> Null,
     connection_type |-> Null, access_code |-> Null, ip_address |-> Null]

PrinterObject(id, serial, type, code, ip) ==
    [present |-> TRUE, id |-> id, serial_number |-> serial,
     connection_type |-> type, access_code |-> code, ip_address |-> ip]

Frame(kind, parses, type, cid, action, pid, printer) ==
    [kind |-> kind, parses |-> parses, type |-> type, command_id |-> cid,
     action |-> action, printer_id |-> pid, printer |-> printer]

Text(type, cid, action, pid, printer) == Frame("text", TRUE, type, cid, action, pid, printer)

HubWelcome == Text("hub_welcome", Null, Null, Null, NoPrinterObject)

Configure(cid, action, printer) == Text("configure_printer", cid, action, Null, printer)

PrinterCommand(cid, pid, action) == Text("printer_command", cid, action, pid, NoPrinterObject)

\* outcomes of the calls a step makes into the environment
\* nvsFlag: Preferences::putBool of the registered flag succeeds;
\* nvsOk: the other writes to NVS succeed; nvsRead: Preferences::begin succeeds
\* where a slot is read
Oracle(mqttOk, nvsOk, pubOk, wsOk, http) ==
    [mqttOk |-> mqttOk, nvsOk |-> nvsOk, pubOk |-> pubOk, wsOk |-> wsOk, http |-> http,
     nvsRead |-> TRUE, nvsFlag |-> nvsOk]

AllGood == Oracle(TRUE, TRUE, TRUE, TRUE, "ok")

----------------------------------------------------------------------------
(* The machine record and the steps of the main loop *)

M(o) ==
    [now |-> now, wifiUp |-> wifiUp, t |-> tunnel, ws |-> ws,
     registered |-> registered, printers |-> printers, store |-> store,
     activeCount |-> activeCount, imap |-> instanceMap, nextUid |-> nextUid,
     c |-> cloud, cws |-> cws, hub |-> hub, lastTempLog |-> lastTempLog,
     binding |-> binding, hist |-> hist, tr |-> <<>>, ret |-> FALSE, o |-> o]

Commit(r) ==
    /\ tunnel' = r.t
    /\ ws' = r.ws
    /\ registered' = r.registered
    /\ printers' = r.printers
    /\ store' = r.store
    /\ activeCount' = r.activeCount
    /\ instanceMap' = r.imap
    /\ nextUid' = r.nextUid
    /\ cloud' = r.c
    /\ cws' = r.cws
    /\ hub' = r.hub
    /\ lastTempLog' = r.lastTempLog
    /\ binding' = r.binding
    /\ hist' = r.hist
    /\ trace' = r.tr

\* main.cpp initializePrinters
initializePrinters(m) ==
    LET l == loadPrinters(m)
    IN IF l.activeCount > 0 THEN connectAll(l) ELSE l

\* main.cpp onWiFiStateChange
onWiFiStateChange(m, connected, pInit, tInit) ==
    IF connected
    THEN LET p == IF pInit THEN m ELSE initializePrinters(m)
         IN IF tInit THEN p ELSE connect(p)
    ELSE LET d == disconnect(m)
         IN IF pInit THEN disconnectAll(d) ELSE d

\* the radio gains or loses its association; every change after the first
\* association is one of the disturbances the exploration counts
WiFiLinkChange ==
    /\ printersInitialized => budget > 0
    /\ budget' = IF printersInitialized THEN budget - 1 ELSE budget
    /\ wifiUp' = ~wifiUp
    /\ trace' = <<>>
    /\ UNCHANGED <<now, wifiConnected, printersInitialized, tunnelInitialized,
                   tunnel, ws, registered, printers, store, activeCount,
                   instanceMap, nextUid, stall, cloud, cws, hub, binding, hist,
                   lastTempLog, lastPrinterStatusUpdate, ble>>

\* WiFiManager::poll detecting a change, and the callback it fires
WiFiManagerPoll(oracles) ==
    /\ wifiConnected # wifiUp
    /\ \E o \in oracles :
         Commit(Log(onWiFiStateChange(M(o), wifiUp, printersInitialized, tunnelInitialized),
                    [e |-> "wifi", connected |-> wifiUp]))
    /\ wifiConnected' = wifiUp
    /\ printersInitialized' = (printersInitialized \/ wifiUp)
    /\ tunnelInitialized' = wifiUp
    /\ stall' = 0
    /\ UNCHANGED <<now, wifiUp, budget, lastPrinterStatusUpdate, ble>>

\* main.cpp loop: tunnelClient.poll()
\* an input is <<frames that arrived, outcomes of the calls the poll makes>>
TunnelPoll(inputs) ==
    /\ wifiConnected /\ tunnelInitialized
    /\ \E in \in inputs, dropAt \in 0 .. 1 :
         /\ Len(in[1]) <= budget
         /\ dropAt <= Len(in[1])
         /\ in[1] # <<>> => ws = "open"
         /\ budget' = budget - Len(in[1])
         /\ Commit(poll(M(in[2]), in[1], dropAt))
    /\ stall' = 0
    /\ UNCHANGED <<now, wifiUp, wifiConnected, printersInitialized, tunnelInitialized,
                   lastPrinterStatusUpdate, ble>>

\* the peer or the network ends the WebSocket; the client has not noticed yet
TransportDrop ==
    /\ ws = "open"
    /\ budget > 0
    /\ budget' = budget - 1
    /\ ws' = "dropped"
    /\ trace' = <<>>
    /\ UNCHANGED <<now, wifiUp, wifiConnected, printersInitialized, tunnelInitialized,
                   tunnel, registered, printers, store, activeCount, instanceMap,
                   nextUid, stall, cloud, cws, hub, binding, hist,
                   lastTempLog, lastPrinterStatusUpdate, ble>>

\* loop() has a poll to run: a link change to notice or the tunnel to poll
PollDue == wifiConnected # wifiUp \/ (wifiConnected /\ tunnelInitialized)

\* a second of millis(); loop() iterates every 10 ms, so a due poll is not
\* put off for more than MaxStall seconds
Tick(seconds) ==
    /\ now < seconds * 1000
    /\ PollDue => stall < MaxStall
    /\ now' = now + 1000
    /\ stall' = IF PollDue THEN stall + 1 ELSE 0
    /\ trace' = <<>>
    /\ UNCHANGED <<wifiUp, wifiConnected, printersInitialized, tunnelInitialized,
                   tunnel, ws, registered, printers, store, activeCount,
                   instanceMap, nextUid, budget, cloud, cws, hub, binding, hist,
                   lastTempLog, lastPrinterStatusUpdate, ble>>

----------------------------------------------------------------------------

\* a text written to a BLE characteristic: whether deserializeJson accepts it
\* and the document it yields; n numbers the writes (0: the empty String)
BleText(json, doc) == [n |-> 0, json |-> json, doc |-> doc]

\* the members of a cloud configuration; "" is an absent member
CloudDoc(tenant_id, claim_token, api_url) ==
    [tenant_id |-> tenant_id, claim_token |-> claim_token, api_url |-> api_url]

EmptyPrinterText == BleText(FALSE, BleRequest("", 0, TRUE, Null, Null, Null, Null))

EmptyCloudText == BleText(FALSE, CloudDoc("", "", ""))

\* BLEProvisioning::BLEProvisioning; pc is where poll() stands, printerDoc and
\* cloudDoc are the texts processPrinterConfig and processCloudConfig parsed,
\* writes and handled are the history of the writes and of their processing
BleInit ==
    [printerConfigRequested |-> FALSE, pendingPrinterConfig |-> EmptyPrinterText,
     cloudConfigRequested |-> FALSE, pendingCloudConfig |-> EmptyCloudText,
     pc |-> "idle", printerDoc |-> EmptyPrinterText, cloudDoc |-> EmptyCloudText,
     writes |-> 0, handled |-> <<>>]

TunnelInit ==
    [state |-> "OFFLINE", reconnectAttempts |-> 0, lastPingTime |-> 0,
     lastPongTime |-> 0, lastReconnectAttempt |-> 0, lastStatusBroadcast |-> 0,
     authStartTime |-> 0]

\* CloudClient::CloudClient
CloudInit ==
    [state |-> "OFFLINE", lastActivityTime |-> 0, lastPingTime |-> 0,
     lastReconnectAttempt |-> 0, authStartTime |-> 0, failedStateStartTime |-> 0,
     reconnectAttempts |-> 0, cloudDisabled |-> FALSE]

EmptyStore == [i \in Slots |-> NullConfig]

StoredPrinter(serial) ==
    [valid |-> TRUE, id |-> serial, type |-> "bambu", name |-> serial,
     ip |-> "10.0.0.1", accessCode |-> "code", serial |-> serial]

\* what earlier runs may have left in NVS: nothing, one printer, five printers
OneStore == [EmptyStore EXCEPT ![0] = StoredPrinter("S1")]

FullStore ==
    [i \in Slots |-> StoredPrinter(<<"S1", "S2", "S3", "S4", "S5">>[i + 1])]

InitStores == {EmptyStore, OneStore, FullStore}

\* nothing was received or broadcast yet and the tunnel is not FAILED (-1: never)
HistInit == [lastInbound |-> 0, lastBroadcast |-> -1, failedAt |-> -1]

\* the tenant binding provisioning wrote to NVS; "" is an absent field
FullBinding == [tenantId |-> "tenant", claimToken |-> "token", cloudUrl |-> "wss://cloud"]

\* what provisioning may have left: everything, nothing, one field missing
Bindings ==
    { FullBinding,
      [tenantId |-> "", claimToken |-> "", cloudUrl |-> ""],
      [FullBinding EXCEPT !.tenantId = ""],
      [FullBinding EXCEPT !.claimToken = ""],
      [FullBinding EXCEPT !.cloudUrl = ""] }

InitState ==
    /\ now = 0
    /\ wifiUp = FALSE
    /\ wifiConnected = FALSE
    /\ printersInitialized = FALSE
    /\ tunnelInitialized = FALSE
    /\ tunnel = TunnelInit
    /\ ws = "closed"
    /\ registered \in BOOLEAN
    /\ printers = [i \in Slots |-> NullClient]
    /\ store \in InitStores
    /\ activeCount = 0
    /\ instanceMap = [T \in Serials |-> 0]
    /\ nextUid = 1
    /\ budget = MaxInputs
    /\ stall = 0
    /\ cloud = CloudInit
    /\ cws = "closed"
    /\ lastTempLog = 0
    /\ lastPrinterStatusUpdate = 0
    /\ ble = BleInit
    /\ hub \in {[valid |-> FALSE, name |-> ""]}
    /\ binding \in Bindings
    /\ hist = HistInit

Init == InitState /\ trace = <<>>

----------------------------------------------------------------------------
(* Command dispatch: every kind of frame the cloud can send *)

A1 == PrinterObject("S1", "S1", "bambu", "code", "10.0.0.1")
A2 == PrinterObject("P1", "S1", "bambu", "code", "10.0.0.1")
A3 == PrinterObject(Null, "S1", "bambu", "code", "10.0.0.1")
B1 == PrinterObject("S2", "S2", "bambu", "code", "10.0.0.2")

ConfigureFrames(cid) ==
    { Configure(cid, "add", pr) :
        pr \in {A1, A2, A3, B1,
                PrinterObject("S1", Null, "bambu", "code", "10.0.0.1"),
                PrinterObject("S1", "S1", Null, "code", "10.0.0.1"),
                PrinterObject("S1", "S1", "bambu", "code", Null),
                PrinterObject("S1", "S1", "bambu", Null, "10.0.0.1"),
                PrinterObject("S1", "", "bambu", "code", "10.0.0.1"),
                PrinterObject("S1", "S1", "moonraker", "code", "10.0.0.1"),
                NoPrinterObject} }
    \cup { Configure(cid, "remove", pr) :
        pr \in {A1, B1, PrinterObject(Null, "P1", Null, Null, Null),
                PrinterObject("S1", Null, Null, Null, Null)} }
    \cup { Configure(cid, "update", pr) :
        pr \in {PrinterObject("S1", "S1", "bambu", "code2", "10.0.0.9"),
                PrinterObject("S1", "S1", "bambu", "code", Null),
                PrinterObject("S1", "S1", Null, "code", "10.0.0.1"),
                PrinterObject("S1", Null, "bambu", "code", "10.0.0.1")} }
    \cup { Configure(cid, "rename", A1), Configure(cid, Null, A1),
           Configure(cid, Null, NoPrinterObject) }

CommandFrames(cid) ==
    { PrinterCommand(cid, "S1", a) : a \in {"pause", "resume", "stop", "clear_bed", "home", Null} }
    \cup { PrinterCommand(cid, "S2", "pause"), PrinterCommand(cid, Null, "pause") }
    \cup { Text(type, cid, Null, Null, NoPrinterObject) :
             type \in {"print_command", "discover_printers", "hub_config",
                       "hub_command", "error", Null} }

OtherFrames ==
    { HubWelcome,
      Frame("text", FALSE, Null, Null, Null, Null, NoPrinterObject),
      Frame("binary", FALSE, Null, Null, Null, Null, NoPrinterObject),
      Frame("ping", FALSE, Null, Null, Null, Null, NoPrinterObject),
      Frame("pong", FALSE, Null, Null, Null, Null, NoPrinterObject) }

DispatchFrames ==
    ConfigureFrames("c1") \cup CommandFrames("c1") \cup CommandFrames(Null)
    \cup { Configure(Null, "add", A1) } \cup OtherFrames

\* second frame of a poll that delivers two
SecondFrames ==
    { Configure("c2", "add", A1), Configure("c2", "remove", A1),
      PrinterCommand("c2", "S1", "pause"),
      Text("print_command", "c2", Null, Null, NoPrinterObject), HubWelcome }

\* a remove that names the printer by its serial number alone
RemoveBySerial(cid, serial) ==
    Configure(cid, "remove", PrinterObject(Null, serial, Null, Null, Null))

\* an add followed by the remove of the same serial, for the cloud ids S1
\* (the serial itself), P1 and none
RoundTripBatches ==
    { <<Configure("c1", "add", pr), RemoveBySerial("c2", "S1")>> : pr \in {A1, A2, A3} }

DispatchBatches ==
    { <<>> } \cup { <<f>> : f \in DispatchFrames }
    \cup { <<f, g>> : f \in SecondFrames \cup { Configure("c1", "add", A1) }, g \in SecondFrames }
    \cup RoundTripBatches

\* the calls into the environment that handling a frame can make
OraclesFor(f) ==
    IF f.type = "configure_printer" /\ f.command_id # Null /\ f.action # Null
    THEN { Oracle(mq, nv, TRUE, TRUE, "ok") : mq \in BOOLEAN, nv \in BOOLEAN }
    ELSE IF f.type = "printer_command" /\ f.action \in {"pause", "resume", "stop"}
    THEN { Oracle(TRUE, TRUE, pb, TRUE, "ok") : pb \in BOOLEAN }
    ELSE { AllGood }

DispatchInputs ==
    { <<<<>>, AllGood>> }
    \cup UNION { { <<b, o>> : o \in OraclesFor(b[1]) } : b \in DispatchBatches \ { <<>> } }

ConnectOracles ==
    { Oracle(mq, TRUE, TRUE, wsOk, http) :
        mq \in BOOLEAN, wsOk \in BOOLEAN, http \in {"ok", "badbody", "conflict", "error"} }

NextDispatch ==
    \/ WiFiLinkChange
    \/ WiFiManagerPoll(ConnectOracles)
    \/ TunnelPoll(DispatchInputs)
    \/ TransportDrop

SpecDispatch == Init /\ [][NextDispatch]_vars

----------------------------------------------------------------------------
(* What one step did, read from its trace *)

\* positions in the trace where a frame was handed to the client
Received == { i \in DOMAIN trace : trace[i].e = "recv" }

\* positions in the trace where the tunnel state changed
Transitions == { j \in DOMAIN trace : trace[j].e = "state" }

\* positions in the trace of the events of one kind
Events(kind) == { i \in DOMAIN trace : trace[i].e = kind }

\* the events between the receipt at i and the next receipt
HandlingOf(i) ==
    { j \in DOMAIN trace : j > i /\ \A k \in Received : k > i => j < k }

\* the command_ack frames sent while the frame received at i was handled
AcksFor(i) ==
    { j \in HandlingOf(i) : trace[j].e = "send" /\ trace[j].msg.type = "command_ack" }

CommandTypes ==
    {"hub_config", "configure_printer", "printer_command", "print_command",
     "discover_printers", "hub_command"}

IsCommand(f) ==
    f.kind = "text" /\ f.parses /\ f.type \in CommandTypes /\ f.command_id # Null

----------------------------------------------------------------------------
(* Claims about command dispatch *)

\* C1: a received frame that carries a command_id causes at most one
\* command_ack with that command_id, whichever handler and early-return path
\* processes it.
C1_AtMostOneAck ==
    \A i \in Received :
        trace[i].frame.command_id # Null =>
            Cardinality({ j \in AcksFor(i) :
                            trace[j].msg.command_id = trace[i].frame.command_id }) <= 1

\* a configure_printer frame took the early return for a missing printer
\* object and was acknowledged once
C1_Witness ==
    \E i \in Received :
        /\ trace[i].frame.type = "configure_printer"
        /\ trace[i].frame.command_id = "c1"
        /\ \E j \in AcksFor(i) : trace[j].msg.error = "Missing printer object"
        /\ Cardinality(AcksFor(i)) = 1

\* C2: every command frame whose envelope parses and that carries a
\* command_id is answered by exactly one command_ack echoing that id before
\* its handler returns, provided the socket stays open, also when the body
\* lacks action, printer_id or the printer object.
C2_ExactlyOneAck ==
    \A i \in Received :
        (IsCommand(trace[i].frame) /\ ws = "open") =>
            Cardinality({ j \in AcksFor(i) :
                            trace[j].msg.command_id = trace[i].frame.command_id }) = 1

\* C7: no two occupied slots hold the same (vendor, serial) pair.
C7_UniqueSerial ==
    \A i, j \in Slots :
        (i # j /\ printers[i].uid # 0 /\ printers[j].uid # 0) =>
            printers[i].serial # printers[j].serial

\* the printer_status frames sent by the broadcast that began at i
StatusFramesOf(i) ==
    { j \in DOMAIN trace :
        /\ j > i /\ trace[j].e = "send" /\ trace[j].msg.type = "printer_status"
        /\ \A k \in DOMAIN trace :
             (k > i /\ k < j) => trace[k].e \notin {"recv", "broadcast"} }

\* C21: a status broadcast made while CONNECTED on an open socket sends one
\* printer_status frame for every occupied slot and no other, and the frame of
\* a slot carries the serial number of its printer as printer_id.
C21_BroadcastCoversEverySlot ==
    \A i \in Events("broadcast") :
        (trace[i].state = "CONNECTED" /\ ws = "open") =>
            LET occupied == { s \in Slots : trace[i].slots[s] # Null }
            IN /\ Cardinality(StatusFramesOf(i)) = Cardinality(occupied)
               /\ \A s \in occupied :
                    Cardinality({ j \in StatusFramesOf(i) :
                                    trace[j].msg.printer_id = trace[i].slots[s] })
                    = Cardinality({ r \in occupied :
                                      trace[i].slots[r] = trace[i].slots[s] })

\* the number of the receipt at i among the receipts of the step
ReceiptNumber(i) == Cardinality({ k \in Received : k <= i })

\* C23: a poll() hands the frames that arrived to the dispatcher in the order
\* of their arrival, and every command_ack is sent while the command it
\* answers is being handled, so before the next frame is taken up.
C23_FifoAckBeforeNext ==
    (trace # <<>> /\ trace[1].e = "poll") =>
        /\ \A i \in Received :
             /\ ReceiptNumber(i) <= Len(trace[1].arrived)
             /\ trace[i].frame = trace[1].arrived[ReceiptNumber(i)]
        /\ \A j \in Events("send") :
             trace[j].msg.type = "command_ack" =>
                 \E i \in Received :
                     /\ j \in HandlingOf(i)
                     /\ trace[j].msg.command_id = StringOf(trace[i].frame.command_id)

\* two commands arrived in one poll and both were acknowledged
C23_Witness ==
    \E i, k \in Received :
        /\ i < k
        /\ trace[i].frame.command_id = "c1" /\ trace[k].frame.command_id = "c2"
        /\ AcksFor(i) # {} /\ AcksFor(k) # {}

\* C25: every occupied slot has a vendor tag and a network address and, for a
\* Bambu printer, an access code and a serial number, in the stored record and
\* in the adapter built from it.
C25_OccupiedSlotsAreComplete ==
    \A slot \in Slots :
        /\ store[slot].valid =>
             /\ store[slot].type # "" /\ store[slot].ip # ""
             /\ store[slot].type = "bambu" =>
                  (store[slot].accessCode # "" /\ store[slot].serial # "")
        /\ printers[slot].uid # 0 =>
             /\ printers[slot].ip # ""
             /\ printers[slot].accessCode # "" /\ printers[slot].serial # ""

\* the frame received at i was acknowledged with the given success flag
AckedWith(tr, i, success) ==
    \E j \in DOMAIN tr :
        /\ j > i /\ tr[j].e = "send" /\ tr[j].msg.type = "command_ack"
        /\ \A k \in DOMAIN tr : (k > i /\ k < j) => tr[k].e # "recv"
        /\ tr[j].msg.command_id = tr[i].frame.command_id
        /\ tr[j].msg.success = success

\* receipts i < k of one poll: a bambu add for a serial, then the remove of
\* that serial by serial number alone, with nothing received in between
IsRoundTrip(tr, i, k) ==
    /\ i < k /\ tr[i].e = "recv" /\ tr[k].e = "recv"
    /\ \A j \in DOMAIN tr : (j > i /\ j < k) => tr[j].e # "recv"
    /\ tr[i].frame.type = "configure_printer" /\ tr[i].frame.action = "add"
    /\ tr[i].frame.printer.connection_type = "bambu"
    /\ tr[k].frame.type = "configure_printer" /\ tr[k].frame.action = "remove"
    /\ tr[k].frame.command_id # Null
    /\ tr[k].frame.printer.present /\ tr[k].frame.printer.id = Null
    /\ tr[k].frame.printer.serial_number = tr[i].frame.printer.serial_number

\* which slots hold an adapter and which hold a stored configuration
SlotTable(ps, st) == [i \in Slots |-> <<ps[i].uid # 0, st[i]>>]

\* C11: add/remove round trip: when an add that was acknowledged with success
\* is followed by a remove naming the same serial number, the remove is
\* acknowledged with success and the slot table is what it was before the
\* add, whatever cloud id the add carried.
C11_AddRemoveRoundTrip ==
    [][\A i, k \in DOMAIN trace' :
          (IsRoundTrip(trace', i, k) /\ AckedWith(trace', i, TRUE)) =>
              /\ AckedWith(trace', k, TRUE)
              /\ SlotTable(printers', store') = SlotTable(printers, store)]_vars

\* the first frame a poll received
FirstReceived(tr, i) ==
    tr[i].e = "recv" /\ \A k \in DOMAIN tr : k < i => tr[k].e # "recv"

\* the events of tr that belong to the handling of the frame received at i
HandlingIn(tr, i) ==
    { j \in DOMAIN tr : j > i /\ \A k \in DOMAIN tr : (k > i /\ k <= j) => tr[k].e # "recv" }

\* some slot holds a printer with the serial, and no adapter with that serial
\* is connected
ConfiguredNotConnected(ps, serial) ==
    /\ \E s \in Slots : ps[s].uid # 0 /\ ps[s].serial = serial
    /\ \A s \in Slots : (ps[s].uid # 0 /\ ps[s].serial = serial) => ~BambuIsConnected(ps[s])

\* the frame received at i is the only frame its poll received
OnlyReceived(tr, i) ==
    tr[i].e = "recv" /\ \A k \in DOMAIN tr : tr[k].e = "recv" => k = i

\* C26: when a configure_printer remove is acknowledged with success = true,
\* the adapter of the slot that held the printer has been disconnected and
\* destroyed and the store no longer has a printer in that slot (which is what
\* loadPrinters tests before it instantiates an adapter); a remove whose
\* record could not be erased is not acknowledged with success.
C26_RemoveErasesRecord ==
    [][\A i \in DOMAIN trace' :
          (/\ OnlyReceived(trace', i)
           /\ trace'[i].frame.type = "configure_printer"
           /\ trace'[i].frame.action = "remove"
           /\ AckedWith(trace', i, TRUE))
          => LET slot == findPrinterBySerial(M(AllGood), trace'[i].frame.printer.serial_number)
             IN /\ slot >= 0
                /\ printers'[slot].uid = 0
                /\ ~hasPrinter(store', slot)]_vars

\* the adapter loadPrinters would create for the slot from the store, or
\* NullClient when it would leave the slot empty
Reloaded(st, slot) ==
    IF hasPrinter(st, slot) /\ canCreateClient(loadPrinter(st, slot))
    THEN BambuClientNew(1, loadPrinter(st, slot))
    ELSE NullClient

\* the slot table is the image of the persisted records: the same slots are
\* occupied, each by an adapter with the id, name, address, access code and
\* serial that a restart followed by loadPrinters would give it
IsImageOfStore(ps, st) ==
    \A slot \in Slots :
        LET r == Reloaded(st, slot)
        IN /\ (ps[slot].uid # 0) = (r.uid # 0)
           /\ ps[slot].uid # 0 =>
                 /\ ps[slot].id = r.id /\ ps[slot].name = r.name
                 /\ ps[slot].ip = r.ip /\ ps[slot].accessCode = r.accessCode
                 /\ ps[slot].serial = r.serial

\* C27: persistence round trip. When the slot table is the image of the
\* persisted records, it still is after a configure_printer add that was
\* acknowledged with success, and after a configure_printer remove that was
\* acknowledged with success and erased its record: a restart followed by
\* loadPrinters yields the same occupied slots and adapters with the same
\* id, name, address, access code and serial.
C27_PersistenceRoundTrip ==
    [][\A i \in DOMAIN trace' :
          (/\ IsImageOfStore(printers, store)
           /\ OnlyReceived(trace', i)
           /\ trace'[i].frame.type = "configure_printer"
           /\ trace'[i].frame.action \in {"add", "remove"}
           /\ AckedWith(trace', i, TRUE)
           /\ trace'[i].frame.action = "remove" =>
                 ~hasPrinter(store', findPrinterBySerial(M(AllGood),
                                                        trace'[i].frame.printer.serial_number)))
          => IsImageOfStore(printers', store')]_vars

\* C12: a printer_command (pause, resume, stop, clear_bed) whose printer_id is
\* the serial of a configured printer that is not connected is acknowledged
\* with success = false and error "Printer not connected", and nothing is
\* published to that printer.
C12_NotConnectedFailsFast ==
    [][\A i \in DOMAIN trace' :
          (/\ FirstReceived(trace', i)
           /\ trace'[i].frame.type = "printer_command"
           /\ trace'[i].frame.command_id # Null
           /\ trace'[i].frame.action \in {"pause", "resume", "stop", "clear_bed"}
           /\ trace'[i].frame.printer_id # Null
           /\ ConfiguredNotConnected(printers, trace'[i].frame.printer_id)
           /\ ws' = "open")
          => /\ \E j \in HandlingIn(trace', i) :
                  /\ trace'[j].e = "send" /\ trace'[j].msg.type = "command_ack"
                  /\ trace'[j].msg.command_id = trace'[i].frame.command_id
                  /\ ~trace'[j].msg.success
                  /\ trace'[j].msg.error = "Printer not connected"
             /\ \A j \in HandlingIn(trace', i) : trace'[j].e # "publish"]_vars

\* the tunnel state changes a step made after position i of its trace
ChangesAfter(i) == { j \in Transitions : j > i }

\* C13: connect() of an unregistered hub posts the registration first: on
\* HTTP 200, 201 or 409 registered is persisted and the tunnel goes on to
\* CONNECTING; on any other outcome it enters RECONNECTING, opens no socket
\* and registered stays false.
C13_RegistrationOutcome ==
    \A i \in Events("post") :
        IF trace[i].code \in {200, 201, 409}
        THEN /\ registered
             /\ \E j \in ChangesAfter(i) : trace[j].to = "CONNECTING"
        ELSE /\ ~registered
             /\ \A j \in ChangesAfter(i) : trace[j].to = "RECONNECTING"
             /\ tunnel.state = "RECONNECTING" /\ ws # "open"

\* a field of the tenant binding is absent from the store
BindingIncomplete ==
    binding.tenantId = "" \/ binding.claimToken = "" \/ binding.cloudUrl = ""

\* C14: while a field of the tenant binding is absent the tunnel stays
\* OFFLINE: no registration request is issued and no socket is opened.
C14_NoBindingStaysOffline ==
    BindingIncomplete =>
        /\ tunnel.state = "OFFLINE" /\ ws = "closed"
        /\ Events("post") = {} /\ Transitions = {}

----------------------------------------------------------------------------
(* Connection lifecycle: time passes, few frames *)

LifecycleBatches ==
    { <<>>, <<HubWelcome>>,
      <<Frame("pong", FALSE, Null, Null, Null, Null, NoPrinterObject)>>,
      <<PrinterCommand("c1", "S1", "pause"), HubWelcome>> }

LifecycleConnectOracles ==
    { Oracle(TRUE, TRUE, TRUE, wsOk, http) :
        wsOk \in BOOLEAN, http \in {"ok", "error"} }

LifecycleInputs ==
    { <<b, Oracle(TRUE, nv, TRUE, wsOk, http)>> :
        b \in LifecycleBatches \ { <<>> }, nv \in {TRUE}, wsOk \in {TRUE}, http \in {"ok"} }
    \cup { <<<<>>, o>> : o \in LifecycleConnectOracles }

InitLifecycle == Init /\ store = OneStore /\ binding = FullBinding

NextTunnel ==
    \/ WiFiLinkChange
    \/ WiFiManagerPoll(LifecycleConnectOracles)
    \/ TunnelPoll(LifecycleInputs)
    \/ TransportDrop
    \/ Tick(MaxSeconds)

SpecTunnel == InitLifecycle /\ [][NextTunnel]_vars

\* the step was a TunnelClient::poll() that began in the given state
PolledIn(state) ==
    trace # <<>> /\ trace[1].e = "poll" /\ trace[1].state = state

\* C3: the tunnel enters CONNECTED only out of AUTHENTICATING and only while
\* handling a hub_welcome frame received on the open socket.
C3_ConnectedOnlyByWelcome ==
    \A j \in Transitions :
        trace[j].to = "CONNECTED" =>
            /\ trace[j].from = "AUTHENTICATING"
            /\ \E i \in Received :
                 j \in HandlingOf(i) /\ trace[i].frame.type = "hub_welcome"

\* a welcome moved the tunnel from AUTHENTICATING to CONNECTED
C3_Witness ==
    /\ tunnel.state = "CONNECTED"
    /\ \E j \in Transitions :
         trace[j].from = "AUTHENTICATING" /\ trace[j].to = "CONNECTED"

\* C4 as stated: a poll() that finds the tunnel in AUTHENTICATING more than
\* 10 s after the socket opened closes the socket and leaves RECONNECTING.
C4_AuthTimeoutReconnects ==
    (PolledIn("AUTHENTICATING") /\ trace[1].authElapsed > 10000) =>
        (tunnel.state = "RECONNECTING" /\ ws = "closed")

\* C4 amended: the same, for a poll() that finds the WiFi link up; with the
\* link down the poll closes the socket and leaves OFFLINE.
C4_AuthTimeoutReconnectsLinkUp ==
    (PolledIn("AUTHENTICATING") /\ trace[1].authElapsed > 10000) =>
        /\ ws = "closed"
        /\ tunnel.state = (IF trace[1].wifi THEN "RECONNECTING" ELSE "OFFLINE")

\* a poll past the deadline, link up, no welcome: the tunnel is RECONNECTING
C4_Witness ==
    /\ PolledIn("AUTHENTICATING") /\ trace[1].authElapsed > 10000 /\ trace[1].wifi
    /\ Received = {}
    /\ tunnel.state = "RECONNECTING" /\ ws = "closed"
    /\ tunnel.lastReconnectAttempt = now

\* C6: whenever the tunnel is CONNECTED the reconnect counter is 0, so the
\* backoff delay that follows a lost session is the initial 1 s.
C6_ConnectedResetsCounter ==
    /\ tunnel.state = "CONNECTED" =>
         (tunnel.reconnectAttempts = 0 /\ getReconnectDelay(M(AllGood)) = 1000)
    /\ \A j \in Transitions :
         (trace[j].from = "CONNECTED" /\ tunnel.state = "RECONNECTING") =>
             getReconnectDelay(M(AllGood)) = 1000

\* the welcome arrived on a socket opened by a reconnect attempt
C6_Witness ==
    /\ PolledIn("AUTHENTICATING") /\ trace[1].attempts > 0
    /\ tunnel.state = "CONNECTED" /\ tunnel.reconnectAttempts = 0

----------------------------------------------------------------------------
(* A long run of the tunnel while the cloud cannot be reached: backoff, FAILED *)

\* the socket never opens; a registration request is answered or fails
BackoffOracles ==
    { Oracle(TRUE, TRUE, TRUE, FALSE, http) : http \in {"ok", "error"} }

BackoffInputs == { <<<<>>, o>> : o \in BackoffOracles }

InitBackoff == Init /\ store = EmptyStore /\ binding = FullBinding

\* the link changes at whole multiples of LinkStepSeconds only
LinkInstant == now % (LinkStepSeconds * 1000) = 0

\* WiFiManager::poll announcing the link while the link is lost again by the
\* time the callback reaches connect(), which reads WiFi.status() itself
WiFiManagerPollLinkLost(oracles) ==
    /\ ~wifiConnected /\ wifiUp
    /\ printersInitialized => budget > 0
    /\ budget' = IF printersInitialized THEN budget - 1 ELSE budget
    /\ \E o \in oracles :
         Commit(Log(onWiFiStateChange([M(o) EXCEPT !.wifiUp = FALSE], TRUE,
                                      printersInitialized, tunnelInitialized),
                    [e |-> "wifi", connected |-> TRUE]))
    /\ wifiUp' = FALSE
    /\ wifiConnected' = TRUE
    /\ printersInitialized' = TRUE
    /\ tunnelInitialized' = TRUE
    /\ stall' = 0
    /\ UNCHANGED <<now, lastPrinterStatusUpdate, ble>>

NextBackoff ==
    \/ (LinkInstant /\ WiFiLinkChange)
    \/ WiFiManagerPoll(BackoffOracles)
    \/ (LinkInstant /\ WiFiManagerPollLinkLost(BackoffOracles))
    \/ (LinkInstant /\ WiFiManagerPoll({AllGood}))
    \/ (LinkInstant /\ TunnelPoll({<<<<HubWelcome>>, AllGood>>}))
    \/ TunnelPoll(BackoffInputs)
    \/ Tick(MaxBackoffSeconds)

SpecBackoff == InitBackoff /\ [][NextBackoff]_vars

\* the step was a poll() in RECONNECTING whose backoff delay had elapsed
AttemptMade == PolledIn("RECONNECTING") /\ Events("attempt") # {}

\* C15: with the link up, a reconnection attempt whose incremented counter
\* exceeds TUNNEL_MAX_RECONNECT_ATTEMPTS moves the tunnel from RECONNECTING to
\* FAILED without a connection attempt, every other attempt calls connect()
\* and does not fail, FAILED is entered in no other way, and a poll that finds
\* the tunnel in FAILED attempts nothing.
C15_FailedAfterMaxAttempts ==
    /\ AttemptMade =>
         IF trace[1].attempts + 1 > TUNNEL_MAX_RECONNECT_ATTEMPTS
         THEN /\ tunnel.state = "FAILED"
              /\ Events("post") = {}
              /\ \A j \in Transitions : trace[j].to = "FAILED"
         ELSE /\ tunnel.state # "FAILED"
              /\ \A j \in Transitions : trace[j].to # "FAILED"
    /\ \A j \in Transitions :
         trace[j].to = "FAILED" =>
             /\ trace[j].from = "RECONNECTING"
             /\ AttemptMade
             /\ tunnel.reconnectAttempts > TUNNEL_MAX_RECONNECT_ATTEMPTS
    /\ (PolledIn("FAILED") /\ trace[1].wifi) =>
         /\ Events("attempt") = {} /\ Events("post") = {} /\ Transitions = {}
         /\ tunnel.state = "FAILED" /\ ws = "closed"

\* the attempt after the last allowed one has just put the tunnel in FAILED
C15_Witness ==
    /\ AttemptMade /\ trace[1].attempts = TUNNEL_MAX_RECONNECT_ATTEMPTS
    /\ tunnel.state = "FAILED"

\* C16: a poll that finds the tunnel in FAILED, with the link up, more than
\* five minutes after FAILED was entered, moves it to OFFLINE and resets the
\* attempt counter to 0.
C16_FailedResetsAfterFiveMinutes ==
    (/\ PolledIn("FAILED") /\ trace[1].wifi
     /\ trace[1].failedAt >= 0
     /\ now - trace[1].failedAt > CLOUD_FAILED_RESET_MS) =>
        /\ tunnel.state = "OFFLINE"
        /\ tunnel.reconnectAttempts = 0

\* the callback of WiFiManager ran connect() after the link was lost again
ConnectWithLinkDown ==
    \E i \in Events("wifi") : trace[i].connected /\ ~wifiUp

\* C17: a poll that finds the link down leaves the tunnel in OFFLINE with the
\* socket closed, whatever state it found, and makes no attempt; connect()
\* called with the link down leaves the tunnel in OFFLINE and neither posts a
\* registration nor opens the socket.
C17_LinkDownGoesOffline ==
    /\ (trace # <<>> /\ trace[1].e = "poll" /\ ~trace[1].wifi) =>
         /\ tunnel.state = "OFFLINE" /\ ws = "closed"
         /\ Events("attempt") = {} /\ Events("post") = {}
    /\ ConnectWithLinkDown =>
         /\ tunnel.state = "OFFLINE" /\ ws = "closed"
         /\ Events("post") = {}
         /\ \A j \in Transitions : trace[j].to = "OFFLINE"

\* a poll found the link down while the tunnel was CONNECTED on an open socket
C17_Witness ==
    /\ PolledIn("CONNECTED") /\ ~trace[1].wifi /\ trace[1].socket = "open"
    /\ tunnel.state = "OFFLINE" /\ ws = "closed"

----------------------------------------------------------------------------
(* One session of the tunnel: heartbeat and status broadcast *)

SessionBatches ==
    { <<>>, <<HubWelcome>>,
      <<Frame("pong", FALSE, Null, Null, Null, Null, NoPrinterObject)>>,
      <<Frame("ping", FALSE, Null, Null, Null, Null, NoPrinterObject)>>,
      <<PrinterCommand("c1", "S1", "pause")>> }

SessionInputs == { <<b, AllGood>> : b \in SessionBatches }

InitSession == Init /\ store = OneStore /\ registered /\ binding = FullBinding

NextSession ==
    \/ (now = 0 /\ WiFiLinkChange)
    \/ WiFiManagerPoll({AllGood})
    \/ TunnelPoll(SessionInputs)
    \/ TransportDrop
    \/ Tick(MaxSessionSeconds)

SpecSession == InitSession /\ [][NextSession]_vars

C19_InboundPostponesTimeout ==
    \A i \in Events("heartbeat_timeout") :
        trace[i].idle > TUNNEL_PONG_TIMEOUT_MS

\* C20: entering CONNECTED is followed in the same step by exactly one full
\* status broadcast, and every later broadcast of the session comes at least
\* 30 s after the one before it.
C20_BroadcastEveryThirtySeconds ==
    /\ \A j \in Transitions :
         trace[j].to = "CONNECTED" =>
             Cardinality({ i \in Events("broadcast") : i > j }) = 1
    /\ \A i \in Events("broadcast") :
         \/ trace[i].sincePrevious = -1
         \/ trace[i].sincePrevious >= TUNNEL_STATUS_BROADCAST_MS

----------------------------------------------------------------------------
(* CloudClient driven by its owner: connect() and poll() calls, frames from  *)
(* the cloud, socket losses and the passing of time                          *)

CloudFrame(kind, parses, type, cid, action, hubName, pin) ==
    [kind |-> kind, parses |-> parses, type |-> type, command_id |-> cid,
     action |-> action, hub_name |-> hubName, gpio_pin |-> pin]

CloudText(type, cid, action, hubName, pin) ==
    CloudFrame("text", TRUE, type, cid, action, hubName, pin)

CloudFrames ==
    {CloudText("hub_welcome", Null, Null, "H1", -1),
     CloudText("hub_config", "c1", Null, "H1", -1),
     CloudText("configure_printer", "c1", "add", Null, -1),
     CloudText("discover_printers", "c1", Null, Null, -1),
     CloudText("hub_command", "c1", "disconnect", Null, -1),
     CloudText("hub_command", "c1", "gpio_set", Null, -1),
     CloudFrame("text", FALSE, Null, Null, Null, Null, -1),
     CloudFrame("pong", TRUE, Null, Null, Null, Null, -1)}

CloudBatches ==
    {<<>>} \cup {<<f>> : f \in CloudFrames}
           \cup {<<CloudText("configure_printer", "c1", "add", Null, -1),
                   CloudText("hub_welcome", Null, Null, "H1", -1)>>}

\* the outcomes a poll depends on: whether a reconnect opens the socket, and
\* whether NVS takes a hub name when a frame carries one
CloudOracles(frames) ==
    {Oracle(TRUE, n, TRUE, w, "ok") :
        n \in IF \E i \in DOMAIN frames : frames[i].hub_name # Null
              THEN BOOLEAN ELSE {TRUE},
        w \in BOOLEAN}

\* the owner calls cloudClient.connect(): once to start the client, and again
\* later as one of the inputs the exploration counts
CloudConnect ==
    /\ cloud.state # "OFFLINE" => budget > 0
    /\ budget' = IF cloud.state # "OFFLINE" THEN budget - 1 ELSE budget
    /\ \E w \in BOOLEAN : Commit(cloudConnect(M(Oracle(TRUE, TRUE, TRUE, w, "ok"))))
    /\ UNCHANGED <<now, wifiUp, wifiConnected, printersInitialized,
                   tunnelInitialized, stall, lastPrinterStatusUpdate, ble>>

\* the owner's loop calls cloudClient.poll()
CloudPoll ==
    /\ \E frames \in CloudBatches, dropAt \in 0 .. 1 :
         /\ Len(frames) <= budget
         /\ dropAt <= Len(frames)
         /\ frames # <<>> => cws = "open"
         /\ budget' = budget - Len(frames)
         /\ \E o \in CloudOracles(frames) : Commit(cloudPoll(M(o), frames, dropAt))
    /\ stall' = 0
    /\ UNCHANGED <<now, wifiUp, wifiConnected, printersInitialized, tunnelInitialized,
                   lastPrinterStatusUpdate, ble>>

\* the peer or the network ends the CloudClient socket unnoticed
CloudTransportDrop ==
    /\ cws = "open"
    /\ budget > 0
    /\ budget' = budget - 1
    /\ cws' = "dropped"
    /\ trace' = <<>>
    /\ UNCHANGED <<now, wifiUp, wifiConnected, printersInitialized, tunnelInitialized,
                   tunnel, ws, registered, printers, store, activeCount, instanceMap,
                   nextUid, stall, cloud, hub, binding, hist, lastTempLog,
                   lastPrinterStatusUpdate, ble>>

\* a second of millis() between two polls of the owner's loop
CloudTick ==
    /\ now < MaxSeconds * 1000
    /\ stall < MaxStall
    /\ now' = now + 1000
    /\ stall' = stall + 1
    /\ trace' = <<>>
    /\ UNCHANGED <<wifiUp, wifiConnected, printersInitialized, tunnelInitialized,
                   tunnel, ws, registered, printers, store, activeCount,
                   instanceMap, nextUid, budget, cloud, cws, hub, binding, hist,
                   lastTempLog, lastPrinterStatusUpdate, ble>>

\* the hub may or may not have been provisioned with a hub id
InitCloud ==
    /\ now = 0
    /\ wifiUp = FALSE
    /\ wifiConnected = FALSE
    /\ printersInitialized = FALSE
    /\ tunnelInitialized = FALSE
    /\ tunnel = TunnelInit
    /\ ws = "closed"
    /\ registered = FALSE
    /\ printers = [i \in Slots |-> NullClient]
    /\ store = EmptyStore
    /\ activeCount = 0
    /\ instanceMap = [T \in Serials |-> 0]
    /\ nextUid = 1
    /\ trace = <<>>
    /\ budget = MaxInputs
    /\ stall = 0
    /\ cloud = CloudInit
    /\ cws = "closed"
    /\ lastTempLog = 0
    /\ lastPrinterStatusUpdate = 0
    /\ ble = BleInit
    /\ hub \in {[valid |-> v, name |-> ""] : v \in BOOLEAN}
    /\ binding = FullBinding
    /\ hist = HistInit

NextCloud ==
    \/ CloudConnect
    \/ CloudPoll
    \/ CloudTransportDrop
    \/ CloudTick

SpecCloud == InitCloud /\ [][NextCloud]_vars

CloudEntries == { j \in DOMAIN trace :
                    trace[j].e = "cloud_state" /\ trace[j].to = "RECONNECTING" }

CloudAttempts == { k \in DOMAIN trace : trace[k].e = "cloud_attempt" }

\* min(1000 ms * 2^i, 60000 ms)
Backoff(i) == IF i >= 6 THEN 60000 ELSE 1000 * (2 ^ i)

\* C5: in RECONNECTING a connection attempt starts only once the backoff
\* delay min(1000 ms * 2^i, 60000 ms) of the attempt counter i has passed, and
\* the first attempt after entering RECONNECTING is never immediate: no call
\* that enters RECONNECTING also starts an attempt at the same millis().
C5_FirstAttemptWaits ==
    /\ \A k \in CloudAttempts : trace[k].delay \in {Backoff(i) : i \in 0 .. 20}
    /\ \A j \in CloudEntries, k \in CloudAttempts : k < j

\* receipts of a hub_command that asks the hub to disconnect
DisconnectCommands ==
    { i \in Events("cloud_recv") :
        /\ trace[i].frame.kind = "text" /\ trace[i].frame.parses
        /\ trace[i].frame.type = "hub_command"
        /\ trace[i].frame.action = "disconnect"
        /\ trace[i].frame.command_id # Null }

\* C22: handling hub_command disconnect sets the cloud-disabled flag and leaves
\* CloudClient in OFFLINE with the socket closed and no reconnection attempt;
\* when the socket was still up the command_ack with success was sent before
\* the socket was closed; a later poll() that finds OFFLINE attempts nothing.
C22_DisconnectCommandGoesOffline ==
    /\ \A i \in DisconnectCommands :
         /\ cloud.cloudDisabled
         /\ cloud.state = "OFFLINE" /\ cws = "closed"
         /\ \A j \in Events("cloud_attempt") : j < i
         /\ ~trace[i].dropped =>
              \E j \in Events("cloud_send") :
                  /\ j > i
                  /\ trace[j].msg.type = "command_ack"
                  /\ trace[j].msg.command_id = trace[i].frame.command_id
                  /\ trace[j].msg.success
                  /\ \A k \in Events("cloud_state") : k > i => j < k
    /\ (trace # <<>> /\ trace[1].e = "cloud_poll" /\ trace[1].state = "OFFLINE") =>
         /\ Events("cloud_attempt") = {} /\ Events("cloud_state") = {}
         /\ cloud.state = "OFFLINE"

\* the command arrived on the socket of a CONNECTED client and was handled
C22_Witness ==
    /\ trace # <<>> /\ trace[1].e = "cloud_poll" /\ trace[1].state = "CONNECTED"
    /\ \E i \in DisconnectCommands : ~trace[i].dropped
    /\ cloud.state = "OFFLINE" /\ cloud.cloudDisabled

----------------------------------------------------------------------------
(* Printers: the MQTT side of the main loop *)

PrintObject(nozzle, nozzleTarget, bed, bedTarget, gcodeState, percent, minutes,
            layer, totalLayer, file) ==
    [nozzle_temper |-> nozzle, nozzle_target_temper |-> nozzleTarget,
     bed_temper |-> bed, bed_target_temper |-> bedTarget,
     gcode_state |-> gcodeState, mc_percent |-> percent,
     mc_remaining_time |-> minutes, layer_num |-> layer,
     total_layer_num |-> totalLayer, gcode_file |-> file]

\* the full report a printer sends after pushall
FullReport ==
    Payload(TRUE, TRUE,
            PrintObject(JInt(220), JInt(220), JFloat(605), JInt(60), JStr("PAUSE"),
                        JInt(50), JInt(10), JInt(3), JInt(100), JStr("a.gcode")))

\* {"print":{"gcode_state":"RUNNING","mc_percent":42,"mc_remaining_time":30,
\*           "nozzle_temper":210.5}}
RunningDelta ==
    Payload(TRUE, TRUE,
            PrintObject(JFloat(2105), Absent, Absent, Absent, JStr("RUNNING"),
                        JInt(42), JInt(30), Absent, Absent, Absent))

\* a state the mapping does not know, and a layer change
SlicingDelta ==
    Payload(TRUE, TRUE,
            PrintObject(Absent, Absent, JNull, Absent, JStr("SLICING"),
                        Absent, Absent, JInt(4), Absent, Absent))

\* members whose values have other types than the adapter expects
MistypedDelta ==
    Payload(TRUE, TRUE,
            PrintObject(JStr("hot"), JNull, Absent, Absent, JInt(5),
                        JStr("42"), JFloat(15), JStr("x"), JFloat(1005), JInt(7)))

\* {"system":{...}}: no "print" object
SystemReport == Payload(TRUE, FALSE, NoPrint)

\* a payload that is not JSON
Garbage == Payload(FALSE, FALSE, NoPrint)

Payloads == {FullReport, RunningDelta, SlicingDelta, MistypedDelta, SystemReport, Garbage}

\* main.cpp loop: printerManager.poll(); at most one report, one of the given
\* payloads, arrives on the subscription of one connected adapter
PrinterPollWith(payloads) ==
    /\ wifiConnected /\ printersInitialized
    /\ \E mqttOk \in BOOLEAN :
         \/ /\ Commit(PrinterManagerPoll(M(Oracle(mqttOk, TRUE, TRUE, TRUE, "ok")), 0, <<>>))
            /\ UNCHANGED budget
         \/ /\ budget > 0
            /\ \E at \in Slots, payload \in payloads :
                 /\ printers[at].mqtt
                 /\ Commit(PrinterManagerPoll(M(Oracle(mqttOk, TRUE, TRUE, TRUE, "ok")),
                                              at, <<payload>>))
            /\ budget' = budget - 1
    /\ UNCHANGED <<now, wifiUp, wifiConnected, printersInitialized, tunnelInitialized,
                   stall, lastPrinterStatusUpdate, ble>>

PrinterPoll == PrinterPollWith(Payloads)

\* a printer is switched off or leaves the network: its MQTT session is gone
\* and _mqttClient->connected() turns false
PrinterLinkLoss ==
    /\ budget > 0
    /\ \E slot \in Slots :
         /\ printers[slot].mqtt
         /\ printers' = [printers EXCEPT ![slot].mqtt = FALSE]
    /\ budget' = budget - 1
    /\ trace' = <<>>
    /\ UNCHANGED <<now, wifiUp, wifiConnected, printersInitialized, tunnelInitialized,
                   tunnel, ws, registered, store, activeCount, instanceMap, nextUid,
                   stall, cloud, cws, hub, binding, hist, lastTempLog, lastPrinterStatusUpdate, ble>>

\* BLEProvisioning::poll with a BLE client connected: the periodic status
\* notification
BlePrinterStatus ==
    /\ now - lastPrinterStatusUpdate > 5000
    /\ lastPrinterStatusUpdate' = now
    /\ Commit(updatePrinterStatus(M(AllGood)))
    /\ UNCHANGED <<now, wifiUp, wifiConnected, printersInitialized, tunnelInitialized,
                   budget, stall, ble>>

\* BLEProvisioning::poll with a light request pending
BleLight ==
    /\ budget > 0
    /\ budget' = budget - 1
    /\ \E slot \in {0, 1}, on \in BOOLEAN, pubOk \in BOOLEAN :
         Commit(processPrinterConfig(M(Oracle(TRUE, TRUE, pubOk, TRUE, "ok")),
                                     BleRequest("light", slot, on, Null, Null, Null, Null)))
    /\ UNCHANGED <<now, wifiUp, wifiConnected, printersInitialized, tunnelInitialized,
                   stall, lastPrinterStatusUpdate, ble>>

BambuTunnelInputs ==
    {<<frames, Oracle(mqttOk, TRUE, TRUE, TRUE, "ok")>> :
        frames \in {<<>>, <<HubWelcome>>, <<Configure("c1", "add", A3)>>},
        mqttOk \in BOOLEAN}

BambuConnectOracles == {Oracle(mqttOk, TRUE, TRUE, TRUE, "ok") : mqttOk \in BOOLEAN}

InitBambu == Init /\ store = OneStore /\ registered /\ binding = FullBinding

NextBambu ==
    \/ WiFiLinkChange
    \/ WiFiManagerPoll(BambuConnectOracles)
    \/ PrinterPoll
    \/ PrinterLinkLoss
    \/ BlePrinterStatus
    \/ BleLight
    \/ TunnelPoll(BambuTunnelInputs)
    \/ Tick(MaxPrinterSeconds)

SpecBambu == InitBambu /\ [][NextBambu]_vars

\* remaining times in minutes: short prints, the largest whose seconds fit 31
\* bits, and the first ones whose seconds exceed 32 bits
RemainingMinutes ==
    {0, 1, 2, 30, 59, 60, 1440, 65535, 65536, 1000000, 35791394,
     71582789, 71582790, 71582800, 100000000}

\* {"print":{"mc_remaining_time":k}}
RemainingDelta(minutes) ==
    Payload(TRUE, TRUE,
            PrintObject(Absent, Absent, Absent, Absent, Absent,
                        Absent, JInt(minutes), Absent, Absent, Absent))

RemainingPayloads == { RemainingDelta(k) : k \in RemainingMinutes }

NextRemaining ==
    \/ WiFiLinkChange
    \/ WiFiManagerPoll(BambuConnectOracles)
    \/ PrinterPollWith(RemainingPayloads)

SpecRemaining == InitBambu /\ [][NextRemaining]_vars

\* C29: a status frame whose print object carries mc_remaining_time = k, a
\* non-negative integer number of minutes, leaves remainingSeconds = 60 * k
\* exactly (the field is a multiple of 60 and its sixtieth is k).
C29_RemainingSecondsExact ==
    \A i \in Events("handled") :
        LET p == trace[i].payload
        IN (p.parses /\ p.hasPrint /\ isInt(p.print.mc_remaining_time)
            /\ p.print.mc_remaining_time.n >= 0)
           => /\ trace[i].after.remainingSeconds % 60 = 0
              /\ trace[i].after.remainingSeconds \div 60 = p.print.mc_remaining_time.n

\* C30: between two consecutive connection attempts that poll() makes for one
\* adapter at least BAMBU_RECONNECT_INTERVAL_MS elapse, also when the first of
\* them set up a session that was lost soon after.
C30_ReconnectInterval ==
    \A i \in Events("reconnect") :
        trace[i].previous >= 0
            => trace[i].at - trace[i].previous >= BAMBU_RECONNECT_INTERVAL_MS

\* C8: the routing table entry of an adapter is removed by disconnect(): after
\* a step in which disconnect() ran on adapter A with report topic T, and A did
\* not register again later in that step, the table does not route T to A.
C8_DisconnectUnregisters ==
    \A i \in Events("disconnect") :
        (trace[i].uid # 0
         /\ ~\E j \in Events("register") : j > i /\ trace[j].uid = trace[i].uid)
        => instanceMap[trace[i].topic] # trace[i].uid

\* C9: every snapshot getStatus() returns with connected = false has state
\* OFFLINE or UNKNOWN.
C9_DisconnectedIsOffline ==
    \A i \in Events("snapshot") :
        ~trace[i].status.connected => trace[i].status.state \in {"OFFLINE", "UNKNOWN"}

\* C24: set_light on a connected adapter publishes two ledctrl commands, one
\* for chamber_light and one for work_light, with distinct increasing sequence
\* ids, and reports success exactly when one of the publishes succeeded.
C24_SetLightBothNodes ==
    \A i \in Events("set_light") :
        LET cmds == { j \in Events("ledctrl") : j < i /\ trace[j].uid = trace[i].uid }
            pubs == { j \in Events("publish") : j < i /\ trace[j].uid = trace[i].uid }
        IN /\ Cardinality(cmds) = 2 /\ Cardinality(pubs) = 2
           /\ { trace[j].led_node : j \in cmds } = {"chamber_light", "work_light"}
           /\ \A a, b \in cmds : a < b => trace[a].sequence_id < trace[b].sequence_id
           /\ trace[i].ok <=> \E j \in pubs : trace[j].ok

\* the snapshot field a member of the print object is stored in
FieldOf ==
    [nozzle_temper |-> "nozzleTemp", nozzle_target_temper |-> "nozzleTarget",
     bed_temper |-> "bedTemp", bed_target_temper |-> "bedTarget",
     gcode_state |-> "stateString", mc_percent |-> "progressPercent",
     mc_remaining_time |-> "remainingSeconds", layer_num |-> "currentLayer",
     total_layer_num |-> "totalLayers", gcode_file |-> "filename"]

\* a member carries a value of the type the protocol gives it
WellTyped(key, x) ==
    CASE key \in {"nozzle_temper", "nozzle_target_temper", "bed_temper",
                  "bed_target_temper", "mc_percent"} -> x.k \in {"int", "float"}
      [] key \in {"mc_remaining_time", "layer_num", "total_layer_num"} -> x.k = "int"
      [] OTHER -> x.k = "string"

\* the value a well-typed member stands for, in the unit of its field
ValueOf(key, x) ==
    CASE key \in {"nozzle_temper", "nozzle_target_temper", "bed_temper",
                  "bed_target_temper", "mc_percent"} ->
              IF x.k = "int" THEN 10 * x.n ELSE x.n
      [] key = "mc_remaining_time" -> 60 * x.n
      [] key \in {"layer_num", "total_layer_num"} -> x.n
      [] OTHER -> x.s

StateOf(rawState) ==
    CASE rawState \in {"IDLE", "FINISH"} -> "IDLE"
      [] rawState \in {"RUNNING", "PREPARE"} -> "PRINTING"
      [] rawState = "PAUSE" -> "PAUSED"
      [] rawState = "FAILED" -> "ERROR"
      [] OTHER -> "UNKNOWN"

\* C10: handleMessage applied to a status delta: a field whose member is absent
\* from the print object (or null) keeps its prior value, a field whose member
\* is present with a value of its type takes that value (the state through the
\* state mapping, the remaining time as 60 * minutes), and a payload without a
\* print object or one that does not parse changes none of these fields.
C10_DeltaKeepsAbsentFields ==
    \A i \in Events("handled") :
        LET p == trace[i].payload
            before == trace[i].before
            after == trace[i].after
            applies == p.parses /\ p.hasPrint
        IN /\ \A key \in PrintKeys :
                /\ (~applies \/ p.print[key].k \in {"absent", "null"})
                       => after[FieldOf[key]] = before[FieldOf[key]]
                /\ (applies /\ WellTyped(key, p.print[key]))
                       => after[FieldOf[key]] = ValueOf(key, p.print[key])
           /\ (~applies \/ p.print.gcode_state.k \in {"absent", "null"})
                  => after.state = before.state
           /\ (applies /\ p.print.gcode_state.k = "string")
                  => after.state = StateOf(p.print.gcode_state.s)

\* a delta with a temperature and without the bed temperature reaches an
\* adapter whose bed temperature an earlier report had set
C10_Witness ==
    \E i \in Events("handled") :
        /\ trace[i].payload = RunningDelta
        /\ trace[i].before.bedTemp = 605
        /\ trace[i].before.filename = "a.gcode"
        /\ trace[i].after.nozzleTemp = 2105
        /\ trace[i].after.remainingSeconds = 1800

-----------------------------------------------------------------------------
(* PrinterStatus::parseState, a pure function of the raw state string.
   A string is the sequence of its characters. *)

UpperCase == <<"A", "B", "C", "D", "E", "F", "G", "H", "I", "J", "K", "L", "M",
               "N", "O", "P", "Q", "R", "S", "T", "U", "V", "W", "X", "Y", "Z">>

LowerCase == <<"a", "b", "c", "d", "e", "f", "g", "h", "i", "j", "k", "l", "m",
               "n", "o", "p", "q", "r", "s", "t", "u", "v", "w", "x", "y", "z">>

\* tolower of one character
lowerChar(c) ==
    IF \E k \in DOMAIN UpperCase : UpperCase[k] = c
    THEN LowerCase[CHOOSE k \in DOMAIN UpperCase : UpperCase[k] = c]
    ELSE c

\* String::toLowerCase
toLowerCase(str) == [i \in DOMAIN str |-> lowerChar(str[i])]

\* PrinterStatus::parseState
parseState(stateStr) ==
    LET lower == toLowerCase(stateStr)
    IN IF lower \in {<<"i", "d", "l", "e">>, <<"s", "t", "a", "n", "d", "b", "y">>, <<"r", "e", "a", "d", "y">>}
       THEN "IDLE"
       ELSE IF lower \in {<<"p", "r", "i", "n", "t", "i", "n", "g">>, <<"r", "u", "n", "n", "i", "n", "g">>, <<"b", "u", "s", "y">>}
       THEN "PRINTING"
       ELSE IF lower \in {<<"p", "a", "u", "s", "e", "d">>, <<"p", "a", "u", "s", "e">>}
       THEN "PAUSED"
       ELSE IF lower \in {<<"e", "r", "r", "o", "r">>, <<"f", "a", "i", "l", "e", "d">>, <<"f", "a", "u", "l", "t">>}
       THEN "ERROR"
       ELSE IF lower \in {<<"o", "f", "f", "l", "i", "n", "e">>, <<"d", "i", "s", "c", "o", "n", "n", "e", "c", "t", "e", "d">>}
       THEN "OFFLINE"
       ELSE "UNKNOWN"

MaxCaseLen == 2        \* leading characters whose letter case is varied

\* the lowercase spellings of the raw strings that are parsed
RawWords ==
    {<<"i", "d", "l", "e">>,
     <<"s", "t", "a", "n", "d", "b", "y">>,
     <<"r", "e", "a", "d", "y">>,
     <<"f", "i", "n", "i", "s", "h">>,
     <<"p", "r", "i", "n", "t", "i", "n", "g">>,
     <<"r", "u", "n", "n", "i", "n", "g">>,
     <<"b", "u", "s", "y">>,
     <<"p", "r", "e", "p", "a", "r", "e">>,
     <<"p", "a", "u", "s", "e", "d">>,
     <<"p", "a", "u", "s", "e">>,
     <<"e", "r", "r", "o", "r">>,
     <<"f", "a", "i", "l", "e", "d">>,
     <<"f", "a", "u", "l", "t">>,
     <<"o", "f", "f", "l", "i", "n", "e">>,
     <<"d", "i", "s", "c", "o", "n", "n", "e", "c", "t", "e", "d">>}
    \cup
    {<<>>,
     <<"u", "n", "k", "n", "o", "w", "n">>,
     <<"c", "o", "m", "p", "l", "e", "t", "e">>,
     <<"i", "d", "l">>,
     <<"i", "d", "l", "e", " ">>,
     <<"f", "i", "n", "i", "s", "h", "e", "d">>,
     <<"s", "l", "i", "c", "i", "n", "g">>}

\* toupper of one character
upperChar(c) ==
    IF \E k \in DOMAIN LowerCase : LowerCase[k] = c
    THEN UpperCase[CHOOSE k \in DOMAIN LowerCase : LowerCase[k] = c]
    ELSE c

\* the word with the characters at the positions in up written in upper case
Cased(word, up) == [i \in DOMAIN word |-> IF i \in up THEN upperChar(word[i]) ELSE word[i]]

\* the letter cases a word is parsed in: every mix of the leading characters,
\* and all upper case
Casings(word) == SUBSET (DOMAIN word \cap (1 .. MaxCaseLen)) \cup {DOMAIN word}

InitParse ==
    /\ InitState /\ registered /\ store = OneStore /\ binding = FullBinding
    /\ trace \in UNION { { <<[e |-> "input", raw |-> Cased(w, up), word |-> w]>> :
                            up \in Casings(w) } : w \in RawWords }

\* a caller applies parseState to the raw string
ParseStateCall ==
    /\ trace # <<>> /\ trace[1].e = "input"
    /\ trace' = <<[e |-> "parseState", raw |-> trace[1].raw, word |-> trace[1].word,
                   state |-> parseState(trace[1].raw)]>>
    /\ UNCHANGED <<now, wifiUp, wifiConnected, printersInitialized, tunnelInitialized,
                   tunnel, ws, registered, printers, store, activeCount,
                   instanceMap, nextUid, budget, stall, cloud, cws, hub, binding,
                   hist, lastTempLog, lastPrinterStatusUpdate, ble>>

NextParse == ParseStateCall

SpecParse == InitParse /\ [][NextParse]_vars

\* the state the table gives for a lowercase spelling
TableState(word) ==
    IF word \in {<<"i", "d", "l", "e">>, <<"s", "t", "a", "n", "d", "b", "y">>, <<"r", "e", "a", "d", "y">>, <<"f", "i", "n", "i", "s", "h">>}
    THEN "IDLE"
    ELSE IF word \in {<<"p", "r", "i", "n", "t", "i", "n", "g">>, <<"r", "u", "n", "n", "i", "n", "g">>, <<"b", "u", "s", "y">>, <<"p", "r", "e", "p", "a", "r", "e">>}
    THEN "PRINTING"
    ELSE IF word \in {<<"p", "a", "u", "s", "e", "d">>, <<"p", "a", "u", "s", "e">>}
    THEN "PAUSED"
    ELSE IF word \in {<<"e", "r", "r", "o", "r">>, <<"f", "a", "i", "l", "e", "d">>, <<"f", "a", "u", "l", "t">>}
    THEN "ERROR"
    ELSE IF word \in {<<"o", "f", "f", "l", "i", "n", "e">>, <<"d", "i", "s", "c", "o", "n", "n", "e", "c", "t", "e", "d">>}
    THEN "OFFLINE"
    ELSE "UNKNOWN"

\* C28: parseState is total and ignores letter case: whatever the letter case
\* of the raw string, the result is IDLE for idle, standby, ready and finish,
\* PRINTING for printing, running, busy and prepare, PAUSED for paused and
\* pause, ERROR for error, failed and fault, OFFLINE for offline and
\* disconnected, and UNKNOWN for every other string.
C28_ParseStateTable ==
    \A i \in Events("parseState") :
        /\ trace[i].state \in PrinterStates
        /\ trace[i].state = TableState(trace[i].word)

-----------------------------------------------------------------------------
(* The fleet: adds, removes and updates with NVS operations that may fail *)

FleetPrinters ==
    {A1, B1,
     PrinterObject("S1", "S1", "bambu", "code2", "10.0.0.9"),
     PrinterObject("S1", "S1", "bambu", "code", Null),
     PrinterObject("S3", "S3", "moonraker", "code", "10.0.0.3")}

FleetFrames ==
    { Configure("c1", action, pr) : action \in {"add", "update"}, pr \in FleetPrinters }
    \cup { Configure("c1", "remove", pr) : pr \in {A1, B1} }

FleetOracle(mqttOk, nvsOk, nvsRead) ==
    [Oracle(mqttOk, nvsOk, TRUE, TRUE, "ok") EXCEPT !.nvsRead = nvsRead]

FleetOracles ==
    { FleetOracle(mq, nv, rd) : mq \in BOOLEAN, nv \in BOOLEAN, rd \in BOOLEAN }

FleetInputs ==
    { <<<<>>, AllGood>> }
    \cup { <<<<f>>, o>> : f \in FleetFrames, o \in FleetOracles }
    \cup { <<<<HubWelcome>>, AllGood>> }

InitFleet == Init /\ registered /\ binding = FullBinding

NextFleet ==
    \/ WiFiLinkChange
    \/ WiFiManagerPoll(FleetOracles)
    \/ TunnelPoll(FleetInputs)

SpecFleet == InitFleet /\ [][NextFleet]_vars

\* the slots that are free: no adapter in memory and no persisted record
FreeSlots(ps, st) == { slot \in Slots : ps[slot].uid = 0 /\ ~hasPrinter(st, slot) }

Lowest(slots) == CHOOSE slot \in slots : \A other \in slots : slot <= other

\* the frame received at i makes handleConfigurePrinter call addPrinter
CallsAddPrinter(tr, i) ==
    /\ OnlyReceived(tr, i)
    /\ tr[i].frame.type = "configure_printer" /\ tr[i].frame.action = "add"
    /\ tr[i].frame.command_id # Null /\ tr[i].frame.printer.present
    /\ tr[i].frame.printer.serial_number # Null
    /\ tr[i].frame.printer.connection_type # Null

\* C31: addPrinter (reached through configure_printer add, whose ack carries
\* the outcome). On success the printer is in the lowest free slot, persisted
\* there, its adapter exists and connect() ran on it, and no other slot
\* changed; on failure neither the slot table nor the store changed; a slot
\* that holds an adapter keeps that adapter.
C31_AddPrinterLowestFreeSlot ==
    [][\A i \in DOMAIN trace' :
          CallsAddPrinter(trace', i) =>
            LET config == configOf(trace'[i].frame.printer)
                free == FreeSlots(printers, store)
            IN /\ AckedWith(trace', i, TRUE) =>
                    /\ free # {}
                    /\ LET slot == Lowest(free)
                       IN /\ printers'[slot].uid # 0
                          /\ printers'[slot].serial = config.serial
                          /\ printers'[slot].ip = config.ip
                          /\ hasPrinter(store', slot)
                          /\ store'[slot].serial = config.serial
                          /\ store'[slot].ip = config.ip
                          /\ \E j \in HandlingIn(trace', i) :
                                 /\ trace'[j].e = "register"
                                 /\ trace'[j].uid = printers'[slot].uid
                          /\ \A other \in Slots \ {slot} :
                                 /\ printers'[other].uid = printers[other].uid
                                 /\ store'[other] = store[other]
               /\ AckedWith(trace', i, FALSE) =>
                    /\ store' = store
                    /\ \A slot \in Slots : printers'[slot].uid = printers[slot].uid
               /\ \A slot \in Slots :
                    printers[slot].uid # 0 => printers'[slot].uid = printers[slot].uid]_vars

-----------------------------------------------------------------------------
(* Recovery of the tunnel after the cloud closed the socket: the link stays
   up, the cloud accepts every connection and answers hub_hello *)

MaxRecoverSeconds == 8 \* millis() bound of the recovery runs

\* the link comes up once and stays up
LinkComesUp == ~wifiUp /\ WiFiLinkChange

\* main.cpp loop: tunnelClient.poll() with the cloud reachable: the answer to
\* hub_hello is waiting when the poll finds the tunnel AUTHENTICATING
TunnelPollCloudUp ==
    /\ wifiConnected /\ tunnelInitialized
    /\ Commit(poll(M(AllGood),
                   IF tunnel.state = "AUTHENTICATING" /\ ws = "open"
                   THEN <<HubWelcome>> ELSE <<>>,
                   0))
    /\ stall' = 0
    /\ UNCHANGED <<now, wifiUp, wifiConnected, printersInitialized, tunnelInitialized,
                   budget, lastPrinterStatusUpdate, ble>>

\* the peer closes the socket of a CONNECTED tunnel, early enough for the
\* next poll to notice and the first backoff delay to elapse within the time
\* explored
PeerCloses ==
    /\ tunnel.state = "CONNECTED"
    /\ now + MaxStall * 1000 + TUNNEL_RECONNECT_INITIAL_MS <= MaxRecoverSeconds * 1000
    /\ TransportDrop

NextRecover ==
    \/ LinkComesUp
    \/ WiFiManagerPoll({AllGood})
    \/ TunnelPollCloudUp
    \/ PeerCloses
    \/ Tick(MaxRecoverSeconds)

\* tunnelClient.poll() would change the state
PollWouldChange ==
    LET r == poll(M(AllGood),
                  IF tunnel.state = "AUTHENTICATING" /\ ws = "open"
                  THEN <<HubWelcome>> ELSE <<>>,
                  0)
    IN \/ stall # 0
       \/ <<r.t, r.ws, r.registered, r.printers, r.store, r.activeCount, r.imap,
            r.nextUid, r.c, r.cws, r.hub, r.lastTempLog, r.binding, r.hist, r.tr>>
          # <<tunnel, ws, registered, printers, store, activeCount, instanceMap,
              nextUid, cloud, cws, hub, lastTempLog, binding, hist, trace>>

\* loop() keeps running and millis() keeps advancing: weak fairness of the
\* two polls, written out with their enabling conditions, and of Tick
SpecRecover ==
    /\ InitLifecycle /\ [][NextRecover]_vars
    /\ ([]<>~(wifiConnected # wifiUp) \/ []<><<WiFiManagerPoll({AllGood})>>_vars)
    /\ ([]<>~(wifiConnected /\ tunnelInitialized /\ PollWouldChange)
         \/ []<><<TunnelPollCloudUp>>_vars)
    /\ WF_vars(Tick(MaxRecoverSeconds))

\* the peer closed the socket of a CONNECTED tunnel
LostWhileConnected == tunnel.state = "CONNECTED" /\ ws = "dropped" /\ wifiUp

\* C32: after the peer closed the socket of a CONNECTED tunnel, with the link
\* up and the cloud accepting connections and answering hub_hello, the tunnel
\* is eventually CONNECTED again on an open socket, by way of RECONNECTING,
\* CONNECTING and AUTHENTICATING; RECONNECTING is left and CONNECTED is entered
\* only inside a poll().
C32_TransportLossRecovers ==
    /\ LostWhileConnected ~> (tunnel.state = "RECONNECTING")
    /\ (tunnel.state = "RECONNECTING") ~> (tunnel.state = "AUTHENTICATING")
    /\ (tunnel.state = "AUTHENTICATING") ~> (tunnel.state = "CONNECTED" /\ ws = "open")
    /\ [](\A j \in Transitions :
            /\ trace[j].from = "RECONNECTING" =>
                  /\ trace[1].e = "poll" /\ trace[j].to = "CONNECTING"
                  /\ \E k \in Transitions :
                        /\ k > j /\ trace[k].from = "CONNECTING"
                        /\ trace[k].to = "AUTHENTICATING"
            /\ trace[j].to = "CONNECTED" =>
                  trace[1].e = "poll" /\ trace[j].from = "AUTHENTICATING")

\* a session set up by poll() after the peer had closed the socket
C32_Witness ==
    /\ budget < MaxInputs
    /\ PolledIn("AUTHENTICATING")
    /\ \E j \in Transitions : trace[j].to = "CONNECTED"
    /\ tunnel.state = "CONNECTED" /\ ws = "open"

-----------------------------------------------------------------------------
(* Provisioning over BLE.  The write callbacks run in the NimBLE host task,
   BLEProvisioning::poll runs in loop(); a callback can run between any two
   statements of poll, here before poll, between the parse of a pending text
   and the rest of its processing, and after it. *)

MaxProvisionSeconds == 3 \* millis() bound where provisioning is explored

\* api_url values the application sends and the WebSocket URL setCloudConfig
\* derives: https:// becomes wss://, http:// becomes ws://, the rest is kept
toWsUrl(apiUrl) ==
    CASE apiUrl = "https://cloud2" -> "wss://cloud2"
      [] apiUrl = "http://lan" -> "ws://lan"
      [] OTHER -> apiUrl

\* Preferences::putString(key, value) > 0: the bytes written, 0 on failure
putString(m, value) == m.o.nvsOk /\ value # ""

\* TunnelConfigStore::setCloudConfig; ret is success
setCloudConfig(m, tenantId, claimToken, apiUrl) ==
    LET wsUrl == toWsUrl(apiUrl)
        a == IF putString(m, tenantId) THEN [m EXCEPT !.binding.tenantId = tenantId] ELSE m
        b == IF putString(m, claimToken) THEN [a EXCEPT !.binding.claimToken = claimToken]
             ELSE a
        c == IF putString(m, wsUrl) THEN [b EXCEPT !.binding.cloudUrl = wsUrl] ELSE b
        success == putString(m, tenantId) /\ putString(m, claimToken) /\ putString(m, wsUrl)
    IN [Log(setRegistered(c, FALSE),
            [e |-> "set_cloud_config", tenant |-> tenantId, token |-> claimToken,
             success |-> success])
        EXCEPT !.ret = success]

\* BLEProvisioning::processCloudConfig after deserializeJson accepted the text
processCloudConfig(m, doc) ==
    IF doc.tenant_id = "" \/ doc.api_url = "" THEN m
    ELSE LET s == setCloudConfig(m, doc.tenant_id, doc.claim_token, doc.api_url)
         IN IF s.ret /\ s.wifiUp THEN disconnect(s) ELSE s

\* processCloudConfig reaches its last statement, which clears the pending text
cloudConfigCompletes(text) ==
    text.json /\ text.doc.tenant_id # "" /\ text.doc.api_url # ""

\* processPrinterConfig reaches its last statement, which clears the pending text
printerConfigCompletes(text) ==
    /\ text.json
    /\ text.doc.action = "add" =>
         /\ OrDefault(text.doc.ip, "") # ""
         /\ OrDefault(text.doc.type, "bambu") = "bambu" =>
              (OrDefault(text.doc.accessCode, "") # "" /\ OrDefault(text.doc.serial, "") # "")

\* PrinterConfigCallbacks::onWrite
PrinterConfigOnWrite(texts) ==
    /\ budget > 0
    /\ budget' = budget - 1
    /\ \E text \in texts :
         ble' = [ble EXCEPT !.writes = @ + 1,
                            !.pendingPrinterConfig = [text EXCEPT !.n = ble.writes + 1],
                            !.printerConfigRequested = TRUE]
    /\ trace' = <<>>
    /\ UNCHANGED <<now, wifiUp, wifiConnected, printersInitialized, tunnelInitialized,
                   tunnel, ws, registered, printers, store, activeCount, instanceMap,
                   nextUid, stall, cloud, cws, hub, binding, hist,
                   lastTempLog, lastPrinterStatusUpdate>>

\* CloudConfigCallbacks::onWrite
CloudConfigOnWrite(texts) ==
    /\ budget > 0
    /\ budget' = budget - 1
    /\ \E text \in texts :
         ble' = [ble EXCEPT !.writes = @ + 1,
                            !.pendingCloudConfig = [text EXCEPT !.n = ble.writes + 1],
                            !.cloudConfigRequested = TRUE]
    /\ trace' = <<>>
    /\ UNCHANGED <<now, wifiUp, wifiConnected, printersInitialized, tunnelInitialized,
                   tunnel, ws, registered, printers, store, activeCount, instanceMap,
                   nextUid, stall, cloud, cws, hub, binding, hist,
                   lastTempLog, lastPrinterStatusUpdate>>

\* the history of the processing: the text numbered n was handed to a parser
Handled(n) == IF n = 0 THEN ble.handled ELSE Append(ble.handled, n)

\* BLEProvisioning::poll with a printer request pending, up to and including
\* deserializeJson in processPrinterConfig
BlePollPrinterConfig ==
    /\ ble.pc = "idle" /\ ble.printerConfigRequested
    /\ ble' = [ble EXCEPT !.printerConfigRequested = FALSE, !.pc = "printer",
                          !.printerDoc = ble.pendingPrinterConfig,
                          !.handled = Handled(ble.pendingPrinterConfig.n)]
    /\ trace' = <<>>
    /\ UNCHANGED <<now, wifiUp, wifiConnected, printersInitialized, tunnelInitialized,
                   tunnel, ws, registered, printers, store, activeCount, instanceMap,
                   nextUid, budget, stall, cloud, cws, hub, binding, hist,
                   lastTempLog, lastPrinterStatusUpdate>>

\* the rest of processPrinterConfig
BleProcessPrinterConfig(oracles) ==
    /\ ble.pc = "printer"
    /\ \E o \in oracles :
         Commit(IF ble.printerDoc.json THEN processPrinterConfig(M(o), ble.printerDoc.doc)
                ELSE M(o))
    /\ ble' = [ble EXCEPT !.pc = "idle",
                          !.pendingPrinterConfig =
                              IF printerConfigCompletes(ble.printerDoc)
                              THEN EmptyPrinterText ELSE @]
    /\ UNCHANGED <<now, wifiUp, wifiConnected, printersInitialized, tunnelInitialized,
                   budget, stall, lastPrinterStatusUpdate>>

\* BLEProvisioning::poll with a cloud configuration pending, up to and
\* including deserializeJson in processCloudConfig
BlePollCloudConfig ==
    /\ ble.pc = "idle" /\ ble.cloudConfigRequested
    /\ ble' = [ble EXCEPT !.cloudConfigRequested = FALSE, !.pc = "cloud",
                          !.cloudDoc = ble.pendingCloudConfig,
                          !.handled = Handled(ble.pendingCloudConfig.n)]
    /\ trace' = <<>>
    /\ UNCHANGED <<now, wifiUp, wifiConnected, printersInitialized, tunnelInitialized,
                   tunnel, ws, registered, printers, store, activeCount, instanceMap,
                   nextUid, budget, stall, cloud, cws, hub, binding, hist,
                   lastTempLog, lastPrinterStatusUpdate>>

\* the rest of processCloudConfig
BleProcessCloudConfig(oracles) ==
    /\ ble.pc = "cloud"
    /\ \E o \in oracles :
         Commit(IF ble.cloudDoc.json THEN processCloudConfig(M(o), ble.cloudDoc.doc)
                ELSE M(o))
    /\ ble' = [ble EXCEPT !.pc = "idle",
                          !.pendingCloudConfig =
                              IF cloudConfigCompletes(ble.cloudDoc)
                              THEN EmptyCloudText ELSE @]
    /\ UNCHANGED <<now, wifiUp, wifiConnected, printersInitialized, tunnelInitialized,
                   budget, stall, lastPrinterStatusUpdate>>

\* loop() is between two of its calls
LoopIdle == ble.pc = "idle"

NewCloudText == BleText(TRUE, CloudDoc("tenant2", "token2", "https://cloud2"))

-----------------------------------------------------------------------------
(* A new cloud configuration arrives while the link is up and stays up, the
   cloud is reachable and NVS works *)

NextReprovision ==
    \/ LinkComesUp
    \/ LoopIdle /\ WiFiManagerPoll({AllGood})
    \/ LoopIdle /\ TunnelPollCloudUp
    \/ CloudConfigOnWrite({NewCloudText})
    \/ BlePollCloudConfig
    \/ BleProcessCloudConfig({AllGood})
    \/ Tick(MaxRecoverSeconds)

\* loop() keeps running: weak fairness of its calls, written out with their
\* enabling conditions, and of Tick
SpecReprovision ==
    /\ InitLifecycle /\ [][NextReprovision]_vars
    /\ ([]<>~(LoopIdle /\ wifiConnected # wifiUp)
         \/ []<><<WiFiManagerPoll({AllGood})>>_vars)
    /\ ([]<>~(LoopIdle /\ wifiConnected /\ tunnelInitialized /\ PollWouldChange)
         \/ []<><<TunnelPollCloudUp>>_vars)
    /\ WF_vars(BlePollCloudConfig)
    /\ ([]<>~(ble.pc = "cloud") \/ []<><<BleProcessCloudConfig({AllGood})>>_vars)
    /\ WF_vars(Tick(MaxRecoverSeconds))

\* provisioning disconnected the tunnel: it is OFFLINE although the link is
\* up and main.cpp has initialised it
Reprovisioned ==
    /\ tunnel.state = "OFFLINE"
    /\ wifiUp /\ wifiConnected /\ tunnelInitialized

\* C33: after provisioning saved a new cloud configuration with the link up
\* and disconnected the tunnel, the tunnel eventually leaves OFFLINE while the
\* link stays up.
C33_ReconnectAfterProvisioning == Reprovisioned ~> (tunnel.state # "OFFLINE")

-----------------------------------------------------------------------------
(* Provisioning while the hub runs: writes to both characteristics, a cloud
   that may refuse the registration or the socket, an NVS that may fail *)

ProvisionOracle(nvsOk, nvsFlag, wsOk, http) ==
    [Oracle(TRUE, nvsOk, TRUE, wsOk, http) EXCEPT !.nvsFlag = nvsFlag]

\* outcomes of the calls connect() makes
ProvisionConnectOracles ==
    { ProvisionOracle(TRUE, nvsFlag, wsOk, http) :
        nvsFlag \in BOOLEAN, wsOk \in BOOLEAN, http \in {"ok", "conflict", "error"} }

\* outcomes of the NVS writes of a provisioning request
ProvisionStoreOracles ==
    { ProvisionOracle(nvsOk, nvsFlag, TRUE, "ok") : nvsOk \in BOOLEAN, nvsFlag \in BOOLEAN }

ProvisionInputs ==
    { <<frames, o>> : frames \in {<<>>, <<HubWelcome>>}, o \in ProvisionConnectOracles }

PrinterTexts ==
    { BleText(TRUE, BleRequest("list", 0, TRUE, Null, Null, Null, Null)),
      BleText(TRUE, BleRequest("add", 0, TRUE, "bambu", "10.0.0.2", "code", "S2")),
      BleText(FALSE, BleRequest("", 0, TRUE, Null, Null, Null, Null)) }

CloudTexts ==
    { NewCloudText,
      BleText(TRUE, CloudDoc("", "token2", "https://cloud2")),
      BleText(FALSE, CloudDoc("", "", "")) }

NextProvision ==
    \/ WiFiLinkChange
    \/ LoopIdle /\ WiFiManagerPoll(ProvisionConnectOracles)
    \/ LoopIdle /\ TunnelPoll(ProvisionInputs)
    \/ TransportDrop
    \/ PrinterConfigOnWrite(PrinterTexts)
    \/ CloudConfigOnWrite(CloudTexts)
    \/ BlePollPrinterConfig
    \/ BleProcessPrinterConfig(ProvisionStoreOracles)
    \/ BlePollCloudConfig
    \/ BleProcessCloudConfig(ProvisionStoreOracles)
    \/ Tick(MaxProvisionSeconds)

SpecProvision == InitBackoff /\ [][NextProvision]_vars

\* the step called setCloudConfig
SetsCloudConfig(tr) == \E i \in DOMAIN tr : tr[i].e = "set_cloud_config"

\* C34: setCloudConfig leaves the registered flag false; a connect() that finds
\* the flag false opens the socket only after a registration POST carrying the
\* stored tenant id and claim token was accepted, and the flag is true once
\* the registration succeeded; a connect() that finds the flag true posts
\* nothing.
C34_RegistrationFollowsCloudConfig ==
    [][/\ SetsCloudConfig(trace') => ~registered'
       /\ \A j \in DOMAIN trace' :
            (trace'[j].e = "state" /\ trace'[j].to = "CONNECTING") =>
               /\ ~registered =>
                    \E i \in 1 .. (j - 1) :
                       /\ trace'[i].e = "post"
                       /\ trace'[i].code \in {200, 409}
                       /\ trace'[i].tenant = binding.tenantId
                       /\ trace'[i].token = binding.claimToken
               /\ trace'[j].from = "REGISTERING" => registered'
       /\ (registered /\ ~SetsCloudConfig(trace')) =>
            \A i \in DOMAIN trace' : trace'[i].e # "post"]_vars

\* C37: no text written to the printer-config or the cloud-config
\* characteristic is handed to its parser twice, and once poll() has nothing
\* pending every text written was handed to its parser.
C37_NoProvisioningRequestLost ==
    /\ \A i, j \in DOMAIN ble.handled : i # j => ble.handled[i] # ble.handled[j]
    /\ (ble.pc = "idle" /\ ~ble.printerConfigRequested /\ ~ble.cloudConfigRequested) =>
          { ble.handled[i] : i \in DOMAIN ble.handled } = 1 .. ble.writes

-----------------------------------------------------------------------------
(* The phase in which a cloud command is executed *)

\* the tunnel state at the moment the frame received at i was handed to
\* onMessage: the state the poll began in, or the last one it set before
StateWhen(tr, i) ==
    LET before == { j \in DOMAIN tr : j < i /\ tr[j].e = "state" }
    IN IF before = {} THEN tr[1].state
       ELSE tr[CHOOSE j \in before : \A k \in before : k <= j].to

\* C35: a configure_printer or printer_command frame received while the
\* tunnel is not CONNECTED has no effect on the fleet: the slot table, the
\* store and the routing table stay as they were and nothing is published to
\* a printer.
C35_CommandsOnlyWhenConnected ==
    [][\A i \in DOMAIN trace' :
          ( /\ OnlyReceived(trace', i)
            /\ trace'[i].frame.type \in {"configure_printer", "printer_command"}
            /\ StateWhen(trace', i) # "CONNECTED" ) =>
              /\ printers' = printers /\ store' = store
              /\ activeCount' = activeCount /\ instanceMap' = instanceMap
              /\ \A j \in DOMAIN trace' : trace'[j].e # "publish"]_vars

-----------------------------------------------------------------------------
(* configure_printer update *)

\* the slots whose adapter has the serial number
HoldersOf(ps, serial) == { slot \in Slots : ps[slot].uid # 0 /\ ps[slot].serial = serial }

\* the frame received at i is an update that names a printer
CallsUpdate(tr, i) ==
    /\ OnlyReceived(tr, i)
    /\ tr[i].frame.type = "configure_printer" /\ tr[i].frame.action = "update"
    /\ tr[i].frame.command_id # Null /\ tr[i].frame.printer.present
    /\ tr[i].frame.printer.serial_number # Null

\* C36: an update acknowledged with success = false leaves the printer it
\* named in a slot with the configuration and the persisted record it had; an
\* update acknowledged with success = true leaves exactly one slot holding the
\* serial number, with the new configuration in memory and in the store.
C36_UpdateAllOrNothing ==
    [][\A i \in DOMAIN trace' :
          CallsUpdate(trace', i) =>
            LET config == configOf(trace'[i].frame.printer)
            IN /\ AckedWith(trace', i, FALSE) =>
                    \A slot \in HoldersOf(printers, config.serial) :
                       \E kept \in HoldersOf(printers', config.serial) :
                          /\ printers'[kept].ip = printers[slot].ip
                          /\ printers'[kept].accessCode = printers[slot].accessCode
                          /\ hasPrinter(store', kept)
                          /\ store'[kept] = store[slot]
               /\ AckedWith(trace', i, TRUE) =>
                    /\ Cardinality(HoldersOf(printers', config.serial)) = 1
                    /\ \A slot \in HoldersOf(printers', config.serial) :
                          /\ printers'[slot].ip = config.ip
                          /\ printers'[slot].accessCode = config.accessCode
                          /\ hasPrinter(store', slot)
                          /\ store'[slot].serial = config.serial
                          /\ store'[slot].ip = config.ip
                          /\ store'[slot].accessCode = config.accessCode]_vars

-----------------------------------------------------------------------------
(* CloudClient: the count of reconnect attempts *)

\* C38: the reconnect attempt counter of CloudClient, which has to exceed
\* CLOUD_MAX_RECONNECT_ATTEMPTS for the client to enter FAILED, never
\* decreases except in a step that enters CONNECTED or leaves FAILED; a socket
\* that is accepted without a hub_welcome following does not reset it.
C38_AttemptsOnlyResetByWelcome ==
    [][cloud'.reconnectAttempts < cloud.reconnectAttempts =>
          \E j \in DOMAIN trace' :
             /\ trace'[j].e = "cloud_state"
             /\ (trace'[j].to = "CONNECTED" \/ trace'[j].from = "FAILED")]_vars

-----------------------------------------------------------------------------
(* The routing table of BambuClient while the fleet changes *)

\* main.cpp loop: printerManager.poll() with one full report arriving on the
\* subscription of a connected adapter
PrinterReport ==
    /\ wifiConnected /\ printersInitialized
    /\ \E at \in Slots :
         /\ printers[at].mqtt
         /\ Commit(PrinterManagerPoll(M(AllGood), at, <<FullReport>>))
    /\ UNCHANGED <<now, wifiUp, wifiConnected, printersInitialized, tunnelInitialized,
                   budget, stall, lastPrinterStatusUpdate, ble>>

NextRouting ==
    \/ WiFiLinkChange
    \/ WiFiManagerPoll(FleetOracles)
    \/ TunnelPoll(FleetInputs)
    \/ PrinterReport

SpecRouting == InitFleet /\ [][NextRouting]_vars

\* C39: every entry of the topic-to-adapter map names an adapter that exists
\* and whose report topic is the key of the entry, and a report the static
\* callback finds an entry for is handled by that adapter.
C39_RoutingTableSafe ==
    /\ \A T \in Serials :
          instanceMap[T] # 0 =>
             \E slot \in Slots :
                printers[slot].uid = instanceMap[T] /\ reportTopic(printers[slot]) = T
    /\ \A i \in DOMAIN trace :
          (trace[i].e = "mqtt" /\ trace[i].to # 0) =>
             /\ i < Len(trace)
             /\ trace[i + 1].e = "handled" /\ trace[i + 1].uid = trace[i].to

\* an adapter was destroyed while another adapter for the same serial number
\* exists: the destructor erased the entry of their common topic
C39_Witness ==
    \E i \in DOMAIN trace, slot \in Slots :
        /\ trace[i].e = "unregister"
        /\ printers[slot].uid # 0 /\ printers[slot].uid # trace[i].uid
        /\ reportTopic(printers[slot]) = trace[i].topic
        /\ instanceMap[trace[i].topic] = 0

-----------------------------------------------------------------------------
(* The counts PrinterManager reports *)

\* PrinterManager::getActiveCount
getActiveCount == activeCount

\* PrinterManager::getConnectedCount
getConnectedCount ==
    Cardinality({ slot \in Slots : printers[slot].uid # 0 /\ BambuIsConnected(printers[slot]) })

\* C40: getActiveCount() is the number of slots that hold an adapter, and
\* getConnectedCount() <= getActiveCount() <= MAX_PRINTERS.
C40_ActiveCountIsAdapterCount ==
    /\ getActiveCount = Cardinality({ slot \in Slots : printers[slot].uid # 0 })
    /\ getConnectedCount <= getActiveCount
    /\ getActiveCount <= MAX_PRINTERS

====
